---- MODULE Spec2Model ----
(***************************************************************************)
(* A model of gkvlite (src/store.go): an append-only, copy-on-write treap  *)
(* store.  Node structs live in a heap (nodes) because the code shares     *)
(* them between tree versions and between a store and its snapshots and    *)
(* mutates their nodeLoc/itemLoc fields in place (lazy loads, Flush).      *)
(* Item structs are never mutated after construction, so an itemLoc holds  *)
(* its Item by value.  Files are sequences of bytes (0..255).              *)
(***************************************************************************)
EXTENDS Integers, Sequences, FiniteSets, TLC

VARIABLES
  nodes,    \* heap of node structs: address (index) -> [item, left, right]
  stores,   \* the Store objects: index -> [coll, file, size, readOnly]
  files,    \* the files: index -> sequence of bytes
  hist,     \* history (read by no operation): hist.model is, per store and
            \* collection, the key -> value map that the Set/SetItem/Delete
            \* calls made so far describe; hist.durable is what the store
            \* held at the last Flush of file 1 that returned nil
  ret,      \* the last operation and what it returned
  nops,     \* number of operations performed (bounds the exploration)
  threads,  \* the goroutines that run a call of a collection concurrently:
            \* index -> the call, its position and its local variables
  maps      \* the collection maps of store 1 as objects, kept where calls of
            \* SetCollection and RemoveCollection run as goroutines: the maps
            \* made so far (heap: address -> name -> address of a Collection),
            \* the Collection structs (objs) and the pointer s.coll (cur).
            \* Elsewhere such a call is one step, stores[s].coll is the map
            \* s.coll points to, and maps is NoMaps.

vars == <<nodes, stores, files, hist, ret, nops, threads, maps>>

model == hist.model

----------------------------------------------------------------------------
(* Optional values: a nil pointer / nil slice is <<>>, a present one <<x>> *)

Nil == <<>>
Some(x) == <<x>>
Val(o) == o[1]

OK == "nil"   \* the nil error

\* Let([x \in {e} |-> body]) is body with x standing for the value of e (a
\* local variable assigned once).
Let(f) == f[CHOOSE x \in DOMAIN f : TRUE]

----------------------------------------------------------------------------
(* Program constants                                                       *)

VERSION == 3
MAGIC_BEG == <<48, 103, 49, 116, 50, 114>>    \* "0g1t2r"
MAGIC_END == <<51, 101, 52, 97, 53, 112>>     \* "3e4a5p"
ploc_length == 12
MaxKeyLen == 65535

----------------------------------------------------------------------------
(* encoding/binary, big endian.  TLC integers are 32 bits wide, so a value *)
(* is decoded exactly when it is below 2^24 (every offset and length of a  *)
(* file of the sizes explored) and to Huge otherwise; a 64-bit value with  *)
(* its sign bit set decodes to a negative number.  The code only compares  *)
(* such values with file positions, which are far below Huge.              *)

Pow256 == <<1, 256, 65536, 16777216>>
Huge == 512 * 1048576

ByteAt(n, shift) == IF shift >= 4 THEN 0 ELSE (n \div Pow256[shift + 1]) % 256

\* binary.Write of an unsigned (or non-negative signed) value n in w bytes.
PutUint(n, w) == [i \in 1..w |-> ByteAt(n, w - i)]

\* binary.Write of an int32: two's complement.
PutInt32(p) ==
  IF p >= 0 THEN PutUint(p, 4)
  ELSE [i \in 1..4 |-> 255 - ByteAt((-p) - 1, 4 - i)]

Low3(b) ==
  Let([w \in {Len(b)} |-> b[w - 2] * 65536 + b[w - 1] * 256 + b[w]])

\* binary.Read of an unsigned value of Len(b) >= 3 bytes.
GetUint(b) ==
  IF \E i \in 1..(Len(b) - 3) : b[i] # 0 THEN Huge ELSE Low3(b)

\* binary.Read of a uint16.
GetUint16(b) == b[1] * 256 + b[2]

\* binary.Read of an int64.
GetInt64(b) == IF b[1] >= 128 THEN -1 ELSE GetUint(b)

\* binary.Read of an int32.
GetInt32(b) ==
  IF b[1] >= 128
  THEN -((127 - (b[1] - 128)) * 16777216 + (255 - b[2]) * 65536
          + (255 - b[3]) * 256 + (255 - b[4])) - 1
  ELSE b[1] * 16777216 + b[2] * 65536 + b[3] * 256 + b[4]

----------------------------------------------------------------------------
(* KeyCompare functions.  "bytes" is bytes.Compare, the default; "rev" is  *)
(* a caller-supplied comparator (the reverse order).                       *)

Sign(x) == IF x < 0 THEN -1 ELSE IF x > 0 THEN 1 ELSE 0

\* bytes.Compare: the first byte that differs decides, then the lengths.
bytesCompare(a, b) ==
  IF a = b THEN 0
  ELSE
    Let([m \in {IF Len(a) < Len(b) THEN Len(a) ELSE Len(b)} |->
    Let([D \in {{i \in 1..m : a[i] # b[i]}} |->
        IF D = {} THEN Sign(Len(a) - Len(b))
        ELSE Let([i \in {CHOOSE i \in D : \A j \in D : i <= j} |->
                 IF a[i] < b[i] THEN -1 ELSE 1])])])

compare(cmp, a, b) ==
  IF cmp = "bytes" THEN bytesCompare(a, b) ELSE bytesCompare(b, a)

----------------------------------------------------------------------------
(* ploc, nodeLoc, itemLoc.  A nil *ploc and a ploc{0,0} behave alike in    *)
(* every use (isEmpty, write, MarshalJSON), so both are ploc_empty here.   *)

ploc_empty == [Offset |-> 0, Length |-> 0]

ploc_isEmpty(p) == p.Offset = 0 /\ p.Length = 0

\* ploc.write: 8 bytes of Offset, 4 bytes of Length.
ploc_write(p) == PutUint(p.Offset, 8) \o PutUint(p.Length, 4)

\* ploc.read from the 12 bytes b.
ploc_read(b) ==
  [Offset |-> GetInt64(SubSeq(b, 1, 8)), Length |-> GetUint(SubSeq(b, 9, 12))]

\* The sentinel `empty`: a nodeLoc with no location and no node.
empty == [loc |-> ploc_empty, node |-> 0]

\* A *nodeLoc: the root field of a collection, the left or right field of
\* a node struct, or a nodeLoc that only the caller holds (by value).
RootPl(s, c) == [k |-> "root", s |-> s, c |-> c, n |-> 0, v |-> empty]
LeftPl(n) == [k |-> "left", s |-> 0, c |-> <<>>, n |-> n, v |-> empty]
RightPl(n) == [k |-> "right", s |-> 0, c |-> <<>>, n |-> n, v |-> empty]
TmpPl(v) == [k |-> "tmp", s |-> 0, c |-> <<>>, n |-> 0, v |-> v]
EmptyPl == TmpPl(empty)

\* *pl
Deref(W, pl) ==
  CASE pl.k = "root" -> W.stores[pl.s].coll[pl.c].root
    [] pl.k = "left" -> W.nodes[pl.n].left
    [] pl.k = "right" -> W.nodes[pl.n].right
    [] OTHER -> pl.v

\* *pl = v (pl is never a caller-held nodeLoc where the code stores).
Assign(W, pl, v) ==
  CASE pl.k = "root" ->
         [W EXCEPT !.stores[pl.s].coll[pl.c].root = v]
    [] pl.k = "left" -> [W EXCEPT !.nodes[pl.n].left = v]
    [] pl.k = "right" -> [W EXCEPT !.nodes[pl.n].right = v]
    [] OTHER -> W

\* new(node): the heap grows by one struct.
Alloc(W, n) == [W EXCEPT !.nodes = Append(@, n)]
NewAddr(W) == Len(W.nodes) + 1

nodeLoc_isEmpty(nl) == ploc_isEmpty(nl.loc) /\ nl.node = 0

----------------------------------------------------------------------------
(* StoreFile (an os.File).  ReadAt fails with io.EOF when the range is not *)
(* inside the file; WriteAt overwrites and extends.  W.io holds the faults *)
(* of the device during a call: a ReadAt at an offset of io.badReads and a *)
(* WriteAt at an offset of io.badWrites return an error, the WriteAt after *)
(* it has written at most io.written bytes and not all of them.  io.log   *)
(* lists the WriteAt calls of the call: offset, bytes written, success.   *)

NoFaults == [badReads |-> {}, badWrites |-> {}, written |-> 0, log |-> <<>>]

ErrRead == "read error"
ErrWrite == "write error"

ReadAt(W, f, off, len) ==
  IF off \in W.io.badReads THEN [err |-> ErrRead, b |-> <<>>]
  ELSE IF off >= 0 /\ off + len <= Len(W.files[f])
  THEN [err |-> OK, b |-> SubSeq(W.files[f], off + 1, off + len)]
  ELSE [err |-> "EOF", b |-> <<>>]

\* The file old with the bytes b written at offset off (bytes between the
\* end of the file and off read as zero).
Overwrite(old, b, off) ==
  (IF off <= Len(old) THEN SubSeq(old, 1, off)
   ELSE old \o [i \in 1..(off - Len(old)) |-> 0])
    \o b \o SubSeq(old, off + Len(b) + 1, Len(old))

WriteAt(W, f, b, off) ==
  IF off \in W.io.badWrites
  THEN
    Let([n \in {IF W.io.written < Len(b) THEN W.io.written ELSE Len(b) - 1} |->
        [W |-> [W EXCEPT !.files[f] = Overwrite(@, SubSeq(b, 1, n), off),
                         !.io.log = Append(@, [off |-> off, n |-> n, ok |-> FALSE])],
         err |-> ErrWrite]])
  ELSE [W |-> [W EXCEPT !.files[f] = Overwrite(@, b, off),
                        !.io.log = Append(@, [off |-> off, n |-> Len(b), ok |-> TRUE])],
        err |-> OK]

----------------------------------------------------------------------------
(* Lazy loading.  Every operator below takes the world W = [nodes, stores, *)
(* files, io] and returns the world it leaves, with the Go return values.  *)

\* nodeLoc.read that empties the nodeLoc when ReadAt fails.
nodeLoc_read_forgetful(W, s, pl) ==
  Let([nl \in {Deref(W, pl)} |->
      IF nl.node # 0 \/ ploc_isEmpty(nl.loc) THEN [W |-> W, err |-> OK]
      ELSE
        Let([r \in {ReadAt(W, W.stores[s].file, nl.loc.Offset, nl.loc.Length)} |->
            IF r.err # OK THEN [W |-> Assign(W, pl, empty), err |-> r.err]
            ELSE IF Len(r.b) < 3 * ploc_length
            THEN [W |-> W, err |-> "unexpected EOF"]
            ELSE
              Let([n \in {
                       [item  |-> [loc |-> ploc_read(SubSeq(r.b, 1, 12)),
                                   item |-> Nil],
                        left  |-> [loc |-> ploc_read(SubSeq(r.b, 13, 24)),
                                   node |-> 0],
                        right |-> [loc |-> ploc_read(SubSeq(r.b, 25, 36)),
                                   node |-> 0]]} |->
              Let([a \in {NewAddr(W)} |->
                  [W |-> Assign(Alloc(W, n), pl, [nl EXCEPT !.node = a]),
                   err |-> OK]])])])])

\* nodeLoc.read(o): load the node struct of *pl from store s's file.
nodeLoc_read(W, s, pl) ==
  Let([nl \in {Deref(W, pl)} |->
      IF nl.node # 0 \/ ploc_isEmpty(nl.loc) THEN [W |-> W, err |-> OK]
      ELSE
        Let([r \in {ReadAt(W, W.stores[s].file, nl.loc.Offset, nl.loc.Length)} |->
            IF r.err # OK THEN [W |-> W, err |-> r.err]
            ELSE IF Len(r.b) < 3 * ploc_length
            THEN [W |-> W, err |-> "unexpected EOF"]
            ELSE
              Let([n \in {
                       [item  |-> [loc |-> ploc_read(SubSeq(r.b, 1, 12)),
                                   item |-> Nil],
                        left  |-> [loc |-> ploc_read(SubSeq(r.b, 13, 24)),
                                   node |-> 0],
                        right |-> [loc |-> ploc_read(SubSeq(r.b, 25, 36)),
                                   node |-> 0]]} |->
              Let([a \in {NewAddr(W)} |->
                  [W |-> Assign(Alloc(W, n), pl, [nl EXCEPT !.node = a]),
                   err |-> OK]])])])])

\* itemLoc.read(o, withValue) on the itemLoc of node struct n.
itemLoc_read(W, s, n, withValue) ==
  Let([il \in {W.nodes[n].item} |->
      IF ~(il.item = Nil \/ (Val(il.item).Val = Nil /\ withValue))
         \/ ploc_isEmpty(il.loc)
      THEN [W |-> W, err |-> OK]
      ELSE
        Let([r \in {ReadAt(W, W.stores[s].file, il.loc.Offset, il.loc.Length)} |->
        Let([b \in {r.b} |->
            IF r.err # OK THEN [W |-> W, err |-> r.err]
            ELSE IF Len(b) < 14 THEN [W |-> W, err |-> "unexpected EOF"]
            ELSE
              Let([length \in {GetUint(SubSeq(b, 1, 4))} |->
              Let([keyLength \in {GetUint16(SubSeq(b, 5, 6))} |->
              Let([valLength \in {GetUint(SubSeq(b, 7, 10))} |->
              Let([Priority \in {GetInt32(SubSeq(b, 11, 14))} |->
              Let([hdrLength \in {14} |->
                  IF valLength = Huge \/ length # hdrLength + keyLength + valLength
                  THEN [W |-> W, err |-> "mismatched itemLoc lengths"]
                  ELSE IF hdrLength + keyLength + valLength > Len(b)
                  THEN [W |-> W, err |-> "panic: slice bounds out of range"]
                  ELSE
                    Let([item \in {
                          [Key |-> SubSeq(b, hdrLength + 1, hdrLength + keyLength),
                           Val |-> IF withValue
                                   THEN Some(SubSeq(b, hdrLength + keyLength + 1,
                                               hdrLength + keyLength + valLength))
                                   ELSE Nil,
                           Priority |-> Priority]} |->
                        [W |-> [W EXCEPT !.nodes[n].item.item = Some(item)],
                         err |-> OK]])])])])])])])])])

\* i.Item() of node struct n (the code dereferences it without a nil check
\* after a successful read).
ItemOf(W, n) == Val(W.nodes[n].item.item)

----------------------------------------------------------------------------
(* The treap operations.  They return *nodeLoc's, as the code does.        *)

SplitErr(W, err) ==
  [W |-> W, left |-> EmptyPl, middle |-> EmptyPl, right |-> EmptyPl, err |-> err]

NodeErr(W, err) == [W |-> W, res |-> EmptyPl, err |-> err]

\* &nodeLoc{node: &node{item, left, right}}
MkNode(W, item, left, right) ==
  [W |-> Alloc(W, [item |-> item, left |-> left, right |-> right]),
   res |-> TmpPl([loc |-> ploc_empty, node |-> NewAddr(W)]),
   err |-> OK]

RECURSIVE split(_, _, _, _, _)
split(W, s, cmp, n, key) ==
  Let([r1 \in {nodeLoc_read(W, s, n)} |->
      IF r1.err # OK \/ nodeLoc_isEmpty(Deref(r1.W, n)) THEN SplitErr(r1.W, r1.err)
      ELSE
        Let([nNode \in {Deref(r1.W, n).node} |->
        Let([r2 \in {itemLoc_read(r1.W, s, nNode, FALSE)} |->
            IF r2.err # OK THEN SplitErr(r2.W, r2.err)
            ELSE
              Let([c \in {compare(cmp, key, ItemOf(r2.W, nNode).Key)} |->
                  IF c = 0
                  THEN [W |-> r2.W, left |-> LeftPl(nNode), middle |-> n,
                        right |-> RightPl(nNode), err |-> OK]
                  ELSE IF c < 0
                  THEN
                    Let([r3 \in {split(r2.W, s, cmp, LeftPl(nNode), key)} |->
                        IF r3.err # OK THEN SplitErr(r3.W, r3.err)
                        ELSE
                          Let([m \in {
                                   MkNode(r3.W, r3.W.nodes[nNode].item,
                                          Deref(r3.W, r3.right),
                                          r3.W.nodes[nNode].right)} |->
                              [W |-> m.W, left |-> r3.left, middle |-> r3.middle,
                               right |-> m.res, err |-> OK]])])
                  ELSE
                    Let([r3 \in {split(r2.W, s, cmp, RightPl(nNode), key)} |->
                        IF r3.err # OK THEN SplitErr(r3.W, r3.err)
                        ELSE
                          Let([m \in {
                                   MkNode(r3.W, r3.W.nodes[nNode].item,
                                          r3.W.nodes[nNode].left,
                                          Deref(r3.W, r3.left))} |->
                              [W |-> m.W, left |-> m.res, middle |-> r3.middle,
                               right |-> r3.right, err |-> OK]])])])])])])

\* What union and join do first: read both nodeLocs, return the other one
\* when one is empty, else read both items.  kind is "this", "that" (the
\* early returns), "both" or "err".
LoadBoth(W, s, this, that) ==
  Let([r1 \in {nodeLoc_read(W, s, this)} |->
      IF r1.err # OK THEN [W |-> r1.W, kind |-> "err", err |-> r1.err]
      ELSE
        Let([r2 \in {nodeLoc_read(r1.W, s, that)} |->
            IF r2.err # OK THEN [W |-> r2.W, kind |-> "err", err |-> r2.err]
            ELSE IF nodeLoc_isEmpty(Deref(r2.W, this))
            THEN [W |-> r2.W, kind |-> "that", err |-> OK]
            ELSE IF nodeLoc_isEmpty(Deref(r2.W, that))
            THEN [W |-> r2.W, kind |-> "this", err |-> OK]
            ELSE
              Let([r3 \in {itemLoc_read(r2.W, s, Deref(r2.W, this).node, FALSE)} |->
                  IF r3.err # OK THEN [W |-> r3.W, kind |-> "err", err |-> r3.err]
                  ELSE
                    Let([r4 \in {itemLoc_read(r3.W, s, Deref(r3.W, that).node, FALSE)} |->
                        IF r4.err # OK
                        THEN [W |-> r4.W, kind |-> "err", err |-> r4.err]
                        ELSE [W |-> r4.W, kind |-> "both", err |-> OK]])])])])

\* The test of union and join: thisItem.Item().Priority > thatItem.Item().Priority
ThisWins(thisPrio, thatPrio) == thisPrio > thatPrio

RECURSIVE join(_, _, _, _)
join(W, s, this, that) ==
  Let([l \in {LoadBoth(W, s, this, that)} |->
      CASE l.kind = "err" -> NodeErr(l.W, l.err)
        [] l.kind = "that" -> [W |-> l.W, res |-> that, err |-> OK]
        [] l.kind = "this" -> [W |-> l.W, res |-> this, err |-> OK]
        [] OTHER ->
          Let([thisN \in {Deref(l.W, this).node} |->
          Let([thatN \in {Deref(l.W, that).node} |->
              IF ThisWins(ItemOf(l.W, thisN).Priority, ItemOf(l.W, thatN).Priority)
              THEN
                Let([r \in {join(l.W, s, RightPl(thisN), that)} |->
                    IF r.err # OK THEN NodeErr(r.W, r.err)
                    ELSE MkNode(r.W, r.W.nodes[thisN].item,
                                r.W.nodes[thisN].left, Deref(r.W, r.res))])
              ELSE
                Let([r \in {join(l.W, s, this, LeftPl(thatN))} |->
                    IF r.err # OK THEN NodeErr(r.W, r.err)
                    ELSE MkNode(r.W, r.W.nodes[thatN].item,
                                Deref(r.W, r.res), r.W.nodes[thatN].right)])])])])

\* The item of the node union builds in its this.prio > that.prio branch.
UnionItem_this(W, thisN, middle) == W.nodes[thisN].item
UnionItem(W, thisN, middle) ==
  IF nodeLoc_isEmpty(Deref(W, middle)) THEN W.nodes[thisN].item
  ELSE W.nodes[Deref(W, middle).node].item

RECURSIVE union(_, _, _, _, _)
union(W, s, cmp, this, that) ==
  Let([l \in {LoadBoth(W, s, this, that)} |->
      CASE l.kind = "err" -> NodeErr(l.W, l.err)
        [] l.kind = "that" -> [W |-> l.W, res |-> that, err |-> OK]
        [] l.kind = "this" -> [W |-> l.W, res |-> this, err |-> OK]
        [] OTHER ->
          Let([thisN \in {Deref(l.W, this).node} |->
          Let([thatN \in {Deref(l.W, that).node} |->
              IF ThisWins(ItemOf(l.W, thisN).Priority, ItemOf(l.W, thatN).Priority)
              THEN
                Let([sp \in {split(l.W, s, cmp, that, ItemOf(l.W, thisN).Key)} |->
                    IF sp.err # OK THEN NodeErr(sp.W, sp.err)
                    ELSE
                      Let([nl \in {union(sp.W, s, cmp, LeftPl(thisN), sp.left)} |->
                          IF nl.err # OK THEN NodeErr(nl.W, nl.err)
                          ELSE
                            Let([nr \in {union(nl.W, s, cmp, RightPl(thisN), sp.right)} |->
                                IF nr.err # OK THEN NodeErr(nr.W, nr.err)
                                ELSE MkNode(nr.W, UnionItem(nr.W, thisN, sp.middle),
                                            Deref(nr.W, nl.res), Deref(nr.W, nr.res))])])])
              ELSE
                Let([sp \in {split(l.W, s, cmp, this, ItemOf(l.W, thatN).Key)} |->
                    IF sp.err # OK THEN NodeErr(sp.W, sp.err)
                    ELSE
                      Let([nl \in {union(sp.W, s, cmp, sp.left, LeftPl(thatN))} |->
                          IF nl.err # OK THEN NodeErr(nl.W, nl.err)
                          ELSE
                            Let([nr \in {union(nl.W, s, cmp, sp.right, RightPl(thatN))} |->
                                IF nr.err # OK THEN NodeErr(nr.W, nr.err)
                                ELSE MkNode(nr.W, nr.W.nodes[thatN].item,
                                            Deref(nr.W, nl.res), Deref(nr.W, nr.res))])])])])])])

----------------------------------------------------------------------------
(* Collection: GetItem, Get, SetItem, Set, Delete, MinItem, MaxItem.       *)
(* A collection is named by its store s and its name c.                    *)

Cmp(W, s, c) == W.stores[s].coll[c].compare

\* The for loop of GetItem, n being the nodeLoc it is at.
RECURSIVE GetItemLoop(_, _, _, _, _, _)
GetItemLoop(W, s, cmp, n, key, withValue) ==
  Let([r \in {nodeLoc_read(W, s, n)} |->
      IF r.err # OK \/ nodeLoc_isEmpty(Deref(r.W, n))
      THEN [W |-> r.W, item |-> Nil, err |-> r.err]
      ELSE
        Let([nd \in {Deref(r.W, n).node} |->
        Let([r2 \in {itemLoc_read(r.W, s, nd, FALSE)} |->
            IF r2.err # OK THEN [W |-> r2.W, item |-> Nil, err |-> r2.err]
            ELSE IF r2.W.nodes[nd].item.item = Nil
            THEN [W |-> r2.W, item |-> Nil,
                  err |-> "missing item after item.read() in GetItem()"]
            ELSE
              Let([c \in {compare(cmp, key, ItemOf(r2.W, nd).Key)} |->
                  IF c < 0 THEN GetItemLoop(r2.W, s, cmp, LeftPl(nd), key, withValue)
                  ELSE IF c > 0
                  THEN GetItemLoop(r2.W, s, cmp, RightPl(nd), key, withValue)
                  ELSE
                    Let([r3 \in {
                              IF withValue THEN itemLoc_read(r2.W, s, nd, TRUE)
                              ELSE r2} |->
                        IF r3.err # OK
                        THEN [W |-> r3.W, item |-> Nil, err |-> r3.err]
                        ELSE [W |-> r3.W, item |-> r3.W.nodes[nd].item.item,
                              err |-> OK]])])])])])

GetItem(W, s, c, key, withValue) ==
  GetItemLoop(W, s, Cmp(W, s, c), RootPl(s, c), key, withValue)

\* Get: val is Nil (a nil slice) or Some(bytes).
Get(W, s, c, key) ==
  Let([r \in {GetItem(W, s, c, key, TRUE)} |->
      IF r.err # OK THEN [W |-> r.W, val |-> Nil, err |-> r.err]
      ELSE IF r.item # Nil THEN [W |-> r.W, val |-> Val(r.item).Val, err |-> OK]
      ELSE [W |-> r.W, val |-> Nil, err |-> OK]])

\* The test SetItem starts with; item.Key and item.Val are Nil or Some(bytes).
InvalidItem_short(item) ==
  \/ item.Key = Nil
  \/ Len(Val(item.Key)) >= MaxKeyLen
  \/ Len(Val(item.Key)) = 0
  \/ item.Val = Nil

InvalidItem(item) ==
  \/ item.Key = Nil
  \/ Len(Val(item.Key)) > MaxKeyLen
  \/ Len(Val(item.Key)) = 0
  \/ item.Val = Nil

\* SetItem when a snapshot shares its Collection structs with the original:
\* the new root is stored into the collection c of every store.
SetItem_shared(W, s, c, item) ==
  IF InvalidItem(item)
  THEN [W |-> W, err |-> "Item.Key/Val missing or too long"]
  ELSE
    Let([that \in {
                MkNode(W, [loc |-> ploc_empty,
                           item |-> Some([Key |-> Val(item.Key),
                                          Val |-> item.Val,
                                          Priority |-> item.Priority])],
                       empty, empty)} |->
    Let([r \in {union(that.W, s, Cmp(W, s, c), RootPl(s, c), that.res)} |->
        IF r.err # OK THEN [W |-> r.W, err |-> r.err]
        ELSE [W |-> [r.W EXCEPT !.stores =
                       [x \in DOMAIN @ |->
                          IF c \in DOMAIN @[x].coll
                          THEN [@[x] EXCEPT !.coll[c].root = Deref(r.W, r.res)]
                          ELSE @[x]]],
              err |-> OK]])])
SetItem(W, s, c, item) ==
  IF InvalidItem(item)
  THEN [W |-> W, err |-> "Item.Key/Val missing or too long"]
  ELSE
    Let([that \in {
                MkNode(W, [loc |-> ploc_empty,
                           item |-> Some([Key |-> Val(item.Key),
                                          Val |-> item.Val,
                                          Priority |-> item.Priority])],
                       empty, empty)} |->
    Let([r \in {union(that.W, s, Cmp(W, s, c), RootPl(s, c), that.res)} |->
        IF r.err # OK THEN [W |-> r.W, err |-> r.err]
        ELSE [W |-> Assign(r.W, RootPl(s, c), Deref(r.W, r.res)), err |-> OK]])])

\* Set: SetItem with the priority int32(rand.Int()) drew.
Set(W, s, c, key, val, rnd) ==
  SetItem(W, s, c, [Key |-> key, Val |-> val, Priority |-> rnd])

Delete_swapped(W, s, c, key) ==
  Let([sp \in {split(W, s, Cmp(W, s, c), RootPl(s, c), key)} |->
      IF sp.err # OK THEN [W |-> sp.W, err |-> sp.err]
      ELSE
        Let([r \in {join(sp.W, s, sp.right, sp.left)} |->
            IF r.err # OK THEN [W |-> r.W, err |-> r.err]
            ELSE [W |-> Assign(r.W, RootPl(s, c), Deref(r.W, r.res)), err |-> OK]])])

Delete(W, s, c, key) ==
  Let([sp \in {split(W, s, Cmp(W, s, c), RootPl(s, c), key)} |->
      IF sp.err # OK THEN [W |-> sp.W, err |-> sp.err]
      ELSE
        Let([r \in {join(sp.W, s, sp.left, sp.right)} |->
            IF r.err # OK THEN [W |-> r.W, err |-> r.err]
            ELSE [W |-> Assign(r.W, RootPl(s, c), Deref(r.W, r.res)), err |-> OK]])])

\* The for loop of edge; side is "left" (MinItem) or "right" (MaxItem).
RECURSIVE edgeLoop(_, _, _, _, _)
edgeLoop(W, s, n, withValue, side) ==
  Let([nd \in {Deref(W, n).node} |->
  Let([child \in {IF side = "left" THEN LeftPl(nd) ELSE RightPl(nd)} |->
  Let([r \in {nodeLoc_read(W, s, child)} |->
      IF r.err # OK THEN [W |-> r.W, item |-> Nil, err |-> r.err]
      ELSE IF nodeLoc_isEmpty(Deref(r.W, child))
      THEN
        Let([r2 \in {itemLoc_read(r.W, s, nd, withValue)} |->
            IF r2.err = OK
            THEN [W |-> r2.W, item |-> r2.W.nodes[nd].item.item, err |-> OK]
            ELSE [W |-> r2.W, item |-> Nil, err |-> r2.err]])
      ELSE edgeLoop(r.W, s, child, withValue, side)])])])

edge(W, s, c, withValue, side) ==
  Let([n \in {RootPl(s, c)} |->
  Let([r \in {nodeLoc_read(W, s, n)} |->
      IF r.err # OK \/ nodeLoc_isEmpty(Deref(r.W, n))
      THEN [W |-> r.W, item |-> Nil, err |-> r.err]
      ELSE edgeLoop(r.W, s, n, withValue, side)])])

\* MinItem that picks the right child.
MinItem_right(W, s, c, withValue) == edge(W, s, c, withValue, "right")
MinItem(W, s, c, withValue) == edge(W, s, c, withValue, "left")
MaxItem(W, s, c, withValue) == edge(W, s, c, withValue, "right")

----------------------------------------------------------------------------
(* Flush: items in key order, nodes children first, then the root record.  *)

Size(W, s) == W.stores[s].size

\* itemLoc.write that stores o.size and the loc whether WriteAt fails or not.
itemLoc_write_eager(W, s, n) ==
  Let([il \in {W.nodes[n].item} |->
      IF ~ploc_isEmpty(il.loc) THEN [W |-> W, err |-> OK]
      ELSE IF il.item = Nil THEN [W |-> W, err |-> "itemLoc.write with nil item"]
      ELSE
        Let([iItem \in {Val(il.item)} |->
        Let([val \in {IF iItem.Val = Nil THEN <<>> ELSE Val(iItem.Val)} |->
        Let([offset \in {Size(W, s)} |->
        Let([length \in {4 + 2 + 4 + 4 + Len(iItem.Key) + Len(val)} |->
        Let([b \in {
                 PutUint(length, 4) \o PutUint(Len(iItem.Key), 2)
                 \o PutUint(Len(val), 4) \o PutInt32(iItem.Priority)
                 \o iItem.Key \o val} |->
        Let([w \in {WriteAt(W, W.stores[s].file, b, offset)} |->
            IF w.err # OK
            THEN [W |-> [w.W EXCEPT !.stores[s].size = offset + length,
                                    !.nodes[n].item.loc =
                                       [Offset |-> offset, Length |-> length]],
                  err |-> w.err]
            ELSE [W |-> [w.W EXCEPT !.stores[s].size = offset + length,
                                    !.nodes[n].item.loc =
                                       [Offset |-> offset, Length |-> length]],
                  err |-> OK]])])])])])])])

\* itemLoc.write(o) on the itemLoc of node struct n.
itemLoc_write(W, s, n) ==
  Let([il \in {W.nodes[n].item} |->
      IF ~ploc_isEmpty(il.loc) THEN [W |-> W, err |-> OK]
      ELSE IF il.item = Nil THEN [W |-> W, err |-> "itemLoc.write with nil item"]
      ELSE
        Let([iItem \in {Val(il.item)} |->
        Let([val \in {IF iItem.Val = Nil THEN <<>> ELSE Val(iItem.Val)} |->
        Let([offset \in {Size(W, s)} |->
        Let([length \in {4 + 2 + 4 + 4 + Len(iItem.Key) + Len(val)} |->
        Let([b \in {
                 PutUint(length, 4) \o PutUint(Len(iItem.Key), 2)
                 \o PutUint(Len(val), 4) \o PutInt32(iItem.Priority)
                 \o iItem.Key \o val} |->
        Let([w \in {WriteAt(W, W.stores[s].file, b, offset)} |->
            IF w.err # OK THEN [W |-> w.W, err |-> w.err]
            ELSE [W |-> [w.W EXCEPT !.stores[s].size = offset + length,
                                    !.nodes[n].item.loc =
                                       [Offset |-> offset, Length |-> length]],
                  err |-> OK]])])])])])])])

\* nodeLoc.write(o) on *pl.
nodeLoc_write(W, s, pl) ==
  Let([nl \in {Deref(W, pl)} |->
      IF ~ploc_isEmpty(nl.loc) \/ nl.node = 0 THEN [W |-> W, err |-> OK]
      ELSE
        Let([node \in {W.nodes[nl.node]} |->
        Let([offset \in {Size(W, s)} |->
        Let([length \in {ploc_length + ploc_length + ploc_length} |->
        Let([b \in {
                 ploc_write(node.item.loc) \o ploc_write(node.left.loc)
                 \o ploc_write(node.right.loc)} |->
        Let([w \in {WriteAt(W, W.stores[s].file, b, offset)} |->
            IF w.err # OK THEN [W |-> w.W, err |-> w.err]
            ELSE [W |-> Assign([w.W EXCEPT !.stores[s].size = offset + length],
                               pl, [nl EXCEPT !.loc = [Offset |-> offset,
                                                       Length |-> length]]),
                  err |-> OK]])])])])])])

RECURSIVE flushItems(_, _, _)
flushItems(W, s, nloc) ==
  Let([nl \in {Deref(W, nloc)} |->
      IF ~ploc_isEmpty(nl.loc) \/ nl.node = 0 THEN [W |-> W, err |-> OK]
      ELSE
        Let([r1 \in {flushItems(W, s, LeftPl(nl.node))} |->
            IF r1.err # OK THEN r1
            ELSE
              Let([r2 \in {itemLoc_write(r1.W, s, nl.node)} |->
                  IF r2.err # OK THEN r2
                  ELSE flushItems(r2.W, s, RightPl(nl.node))])])])

\* flushNodes that writes a node before its children.
RECURSIVE flushNodes_parentFirst(_, _, _)
flushNodes_parentFirst(W, s, nloc) ==
  Let([nl \in {Deref(W, nloc)} |->
      IF ~ploc_isEmpty(nl.loc) \/ nl.node = 0 THEN [W |-> W, err |-> OK]
      ELSE
        Let([r0 \in {nodeLoc_write(W, s, nloc)} |->
            IF r0.err # OK THEN r0
            ELSE
              Let([r1 \in {flushNodes_parentFirst(r0.W, s, LeftPl(nl.node))} |->
                  IF r1.err # OK THEN r1
                  ELSE flushNodes_parentFirst(r1.W, s, RightPl(nl.node))])])])

RECURSIVE flushNodes(_, _, _)
flushNodes(W, s, nloc) ==
  Let([nl \in {Deref(W, nloc)} |->
      IF ~ploc_isEmpty(nl.loc) \/ nl.node = 0 THEN [W |-> W, err |-> OK]
      ELSE
        Let([r1 \in {flushNodes(W, s, LeftPl(nl.node))} |->
            IF r1.err # OK THEN r1
            ELSE
              Let([r2 \in {flushNodes(r1.W, s, RightPl(nl.node))} |->
                  IF r2.err # OK THEN r2
                  ELSE nodeLoc_write(r2.W, s, nloc)])])])

----------------------------------------------------------------------------
(* encoding/json of the collection map, for names that need no escaping:   *)
(* {"name":{"o":<offset>,"l":<length>},...} with the names sorted.         *)

RECURSIVE Dec(_)
Dec(n) == IF n < 10 THEN <<48 + n>> ELSE Dec(n \div 10) \o <<48 + (n % 10)>>

\* The names of S in ascending byte order (json.Marshal sorts map keys).
RECURSIVE SortedNames(_)
SortedNames(S) ==
  IF S = {} THEN <<>>
  ELSE Let([m \in {CHOOSE x \in S : \A y \in S : bytesCompare(x, y) <= 0} |->
           <<m>> \o SortedNames(S \ {m})])

Reverse(q) == [i \in 1..Len(q) |-> q[Len(q) + 1 - i]]

\* Collection.MarshalJSON
Collection_MarshalJSON_swapped(t) ==
  <<123, 34, 111, 34, 58>> \o Dec(t.root.loc.Length)
    \o <<44, 34, 108, 34, 58>> \o Dec(t.root.loc.Offset) \o <<125>>

Collection_MarshalJSON(t) ==
  <<123, 34, 111, 34, 58>> \o Dec(t.root.loc.Offset)
    \o <<44, 34, 108, 34, 58>> \o Dec(t.root.loc.Length) \o <<125>>

RECURSIVE MarshalEntries(_, _)
MarshalEntries(coll, names) ==
  IF names = <<>> THEN <<>>
  ELSE <<34>> \o Head(names) \o <<34, 58>> \o Collection_MarshalJSON(coll[Head(names)])
       \o (IF Len(names) > 1 THEN <<44>> ELSE <<>>)
       \o MarshalEntries(coll, Tail(names))

json_Marshal(coll) ==
  <<123>> \o MarshalEntries(coll, SortedNames(DOMAIN coll)) \o <<125>>

IsDigit(x) == x >= 48 /\ x <= 57

HasAt(d, i, pat) ==
  i + Len(pat) - 1 <= Len(d) /\ SubSeq(d, i, i + Len(pat) - 1) = pat

\* The first index >= i of d that holds no digit.
RECURSIVE DigitsEnd(_, _)
DigitsEnd(d, i) ==
  IF i <= Len(d) /\ IsDigit(d[i]) THEN DigitsEnd(d, i + 1) ELSE i

RECURSIVE DecValue(_, _, _)
DecValue(d, i, j) ==
  IF j < i THEN 0 ELSE DecValue(d, i, j - 1) * 10 + (d[j] - 48)

\* The first index >= i of d that holds a double quote, or Len(d) + 1.
RECURSIVE QuoteAt(_, _)
QuoteAt(d, i) == IF i <= Len(d) /\ d[i] # 34 THEN QuoteAt(d, i + 1) ELSE i

\* A map with no entry.
EmptyMap == [x \in {} |-> 0]

JSONErr == [err |-> "invalid character", m |-> EmptyMap]

\* One "name":{"o":n,"l":n} after another, from d[i] on; m is the map so far
\* (a later entry of the same name replaces an earlier one).
RECURSIVE UnmarshalEntries(_, _, _)
UnmarshalEntries(d, i, m) ==
  IF ~HasAt(d, i, <<34>>) THEN JSONErr
  ELSE
    Let([j \in {QuoteAt(d, i + 1)} |->
    Let([name \in {SubSeq(d, i + 1, j - 1)} |->
    Let([o1 \in {j + 7} |->
    Let([o2 \in {DigitsEnd(d, o1)} |->
    Let([l1 \in {o2 + 5} |->
    Let([l2 \in {DigitsEnd(d, l1)} |->
        IF ~(/\ HasAt(d, j, <<34, 58, 123, 34, 111, 34, 58>>)
             /\ o2 > o1 /\ o2 - o1 <= 7 /\ \A x \in 1..Len(name) : name[x] # 92
             /\ HasAt(d, o2, <<44, 34, 108, 34, 58>>)
             /\ l2 > l1 /\ l2 - l1 <= 7
             /\ HasAt(d, l2, <<125>>))
        THEN JSONErr
        ELSE
          Let([p \in {
                   [Offset |-> DecValue(d, o1, o2 - 1),
                    Length |-> DecValue(d, l1, l2 - 1)]} |->
          Let([m2 \in {[x \in DOMAIN m \cup {name} |-> IF x = name THEN p ELSE m[x]]} |->
              IF HasAt(d, l2 + 1, <<125>>) /\ l2 + 1 = Len(d)
              THEN [err |-> OK, m |-> m2]
              ELSE IF HasAt(d, l2 + 1, <<44>>)
              THEN UnmarshalEntries(d, l2 + 2, m2)
              ELSE JSONErr])])])])])])])])

\* json.Unmarshal(d, &m) with Collection.UnmarshalJSON: name -> root ploc.
json_Unmarshal(d) ==
  IF d = <<123, 125>> THEN [err |-> OK, m |-> EmptyMap]
  ELSE IF HasAt(d, 1, <<123>>) THEN UnmarshalEntries(d, 2, EmptyMap)
  ELSE JSONErr

----------------------------------------------------------------------------
(* The root record: writeRoots and the recovery scan readRoots.            *)

\* The bytes writeRoots builds for the JSON sJSON at file offset `offset`.
RootBytes(sJSON, offset) ==
  Let([length \in {2 * Len(MAGIC_BEG) + 4 + 4 + Len(sJSON) + 8 + 4 + 2 * Len(MAGIC_END)} |->
      MAGIC_BEG \o MAGIC_BEG \o PutUint(VERSION, 4) \o PutUint(length, 4)
        \o sJSON \o PutUint(offset, 8) \o PutUint(length, 4)
        \o MAGIC_END \o MAGIC_END])

\* writeRoots that leaves o.size where it was.
writeRoots_stuck(W, s) ==
  Let([offset \in {Size(W, s)} |->
  Let([b \in {RootBytes(json_Marshal(W.stores[s].coll), offset)} |->
  Let([w \in {WriteAt(W, W.stores[s].file, b, offset)} |->
      [W |-> w.W, err |-> w.err]])])])

writeRoots(W, s) ==
  Let([offset \in {Size(W, s)} |->
  Let([b \in {RootBytes(json_Marshal(W.stores[s].coll), offset)} |->
  Let([w \in {WriteAt(W, W.stores[s].file, b, offset)} |->
      IF w.err # OK THEN [W |-> w.W, err |-> w.err]
      ELSE [W |-> [w.W EXCEPT !.stores[s].size = offset + Len(b)], err |-> OK]])])])

endBArrLen == 8 + 4 + 2 * Len(MAGIC_END)
minSize == 2 * Len(MAGIC_BEG) + 4 + 4 + endBArrLen

\* What the scan does with the candidate position p (= o.size): "retry"
\* (o.size is decremented and the scan goes on), "fail" (readRoots returns
\* err) or "found" (readRoots installs the map m and returns nil).
readRootsStep(W, f, p) ==
  IF p <= minSize
  THEN [kind |-> "fail", err |-> "couldn't find roots; file corrupted or wrong?",
        m |-> EmptyMap]
  ELSE
    Let([e \in {ReadAt(W, f, p - endBArrLen, endBArrLen)} |->
    Let([endBArr \in {e.b} |->
    Let([Retry \in {[kind |-> "retry", err |-> OK, m |-> EmptyMap]} |->
    LET Fail(err) == [kind |-> "fail", err |-> err, m |-> EmptyMap]
    IN
        IF e.err # OK THEN Fail(e.err)
        ELSE IF ~(/\ SubSeq(endBArr, 13, 18) = MAGIC_END
                  /\ SubSeq(endBArr, 19, 24) = MAGIC_END)
        THEN Retry
        ELSE
          Let([offset \in {GetInt64(SubSeq(endBArr, 1, 8))} |->
          Let([length \in {GetUint(SubSeq(endBArr, 9, 12))} |->
              IF ~(offset >= 0 /\ offset < p - minSize /\ length = p - offset)
              THEN Retry
              ELSE
                Let([r \in {ReadAt(W, f, offset, p - offset - endBArrLen)} |->
                Let([data \in {r.b} |->
                    IF r.err # OK THEN Fail(r.err)
                    ELSE IF ~(/\ SubSeq(data, 1, 6) = MAGIC_BEG
                              /\ SubSeq(data, 7, 12) = MAGIC_BEG)
                    THEN Retry
                    ELSE IF Len(data) < 2 * Len(MAGIC_BEG) + 4 + 4
                    THEN Fail("unexpected EOF")
                    ELSE
                      Let([version \in {GetUint(SubSeq(data, 13, 16))} |->
                      Let([length0 \in {GetUint(SubSeq(data, 17, 20))} |->
                          IF version # VERSION THEN Fail("version mismatch")
                          ELSE IF length0 # length THEN Fail("length mismatch")
                          ELSE
                            Let([u \in {json_Unmarshal(SubSeq(data, 21, Len(data)))} |->
                                IF u.err # OK THEN Fail(u.err)
                                ELSE [kind |-> "found", err |-> OK, m |-> u.m]])])])])])])])])])])

\* The inner loop ("scan backwards for MAGIC_END"): the first position from
\* p down at which it stops decrementing o.size, which is one that ends
\* with MAGIC_END MAGIC_END or is not above minSize.
MagicAt(W, f, q) ==
  SubSeq(W.files[f], q - 2 * Len(MAGIC_END) + 1, q) = MAGIC_END \o MAGIC_END

ScanBack(W, f, p) ==
  IF p <= minSize THEN p
  ELSE CHOOSE q \in minSize..p :
         /\ q = minSize \/ MagicAt(W, f, q)
         /\ \A x \in (q + 1)..p : ~MagicAt(W, f, x)

\* The scan from position p down: the position it ends at, and how.
RECURSIVE readRootsScan(_, _, _)
readRootsScan(W, f, p) ==
  Let([q \in {ScanBack(W, f, p)} |->
  Let([st \in {readRootsStep(W, f, q)} |->
      IF st.kind = "retry" THEN readRootsScan(W, f, q - 1)
      ELSE [size |-> q, err |-> st.err, m |-> st.m]])])

\* readRoots that leaves o.size at the size of the file.
readRoots_fileSize(W, s) ==
  Let([f \in {W.stores[s].file} |->
  Let([fsize \in {Len(W.files[f])} |->
      IF fsize <= 0
      THEN [W |-> [W EXCEPT !.stores[s].size = fsize], err |-> OK]
      ELSE
        Let([r \in {readRootsScan(W, f, fsize)} |->
            [W |-> [W EXCEPT !.stores[s].size = fsize,
                             !.stores[s].coll =
                                [name \in DOMAIN r.m |->
                                   [compare |-> "bytes",
                                    root |-> [loc |-> r.m[name], node |-> 0]]]],
             err |-> r.err]])])])

\* readRoots that returns nil when the scan finds no root record.
readRoots_silent(W, s) ==
  Let([f \in {W.stores[s].file} |->
  Let([fsize \in {Len(W.files[f])} |->
      IF fsize <= 0
      THEN [W |-> [W EXCEPT !.stores[s].size = fsize], err |-> OK]
      ELSE
        Let([r \in {readRootsScan(W, f, fsize)} |->
            [W |-> [W EXCEPT !.stores[s].size = r.size,
                             !.stores[s].coll =
                                [name \in DOMAIN r.m |->
                                   [compare |-> "bytes",
                                    root |-> [loc |-> r.m[name], node |-> 0]]]],
             err |-> OK]])])])

\* readRoots on store s (whose collection map is still empty).
readRoots(W, s) ==
  Let([f \in {W.stores[s].file} |->
  Let([fsize \in {Len(W.files[f])} |->
      IF fsize <= 0
      THEN [W |-> [W EXCEPT !.stores[s].size = fsize], err |-> OK]
      ELSE
        Let([r \in {readRootsScan(W, f, fsize)} |->
            [W |-> [W EXCEPT !.stores[s].size = r.size,
                             !.stores[s].coll =
                                [name \in DOMAIN r.m |->
                                   [compare |-> "bytes",
                                    root |-> [loc |-> r.m[name], node |-> 0]]]],
             err |-> r.err]])])])

----------------------------------------------------------------------------
(* Store: NewStore, SetCollection, RemoveCollection, Flush, Snapshot.      *)

\* NewStore(file); file 0 is the nil file.  The store is W.stores[s] when
\* err is nil, and no store is returned otherwise.
NewStore(W, file) ==
  Let([res \in {[coll |-> EmptyMap, file |-> file, size |-> 0, readOnly |-> FALSE]} |->
  Let([W1 \in {[W EXCEPT !.stores = Append(@, res)]} |->
  Let([s \in {Len(W1.stores)} |->
      IF file = 0 THEN [W |-> W1, s |-> s, err |-> OK]
      ELSE
        Let([r \in {readRoots(W1, s)} |->
            IF r.err # OK THEN [W |-> W, s |-> 0, err |-> r.err]
            ELSE [W |-> r.W, s |-> s, err |-> OK]])])])])

\* copyColl's result with name set to the collection t.
WithColl(coll, name, t) ==
  [x \in DOMAIN coll \cup {name} |-> IF x = name THEN t ELSE coll[x]]

\* SetCollection(name, compare); compare "nil" is the nil func.
SetCollection(W, s, name, cmp) ==
  Let([cf \in {IF cmp = "nil" THEN "bytes" ELSE cmp} |->
  Let([orig \in {W.stores[s].coll} |->
  Let([t \in {
           IF name \in DOMAIN orig THEN orig[name]
           ELSE [compare |-> cf, root |-> empty]} |->
      [W EXCEPT !.stores[s].coll = WithColl(orig, name, [t EXCEPT !.compare = cf])]])])])

\* RemoveCollection that appends the root record at once.
RemoveCollection_persisted(W, s, name) ==
  Let([orig \in {W.stores[s].coll} |->
  Let([W1 \in {[W EXCEPT !.stores[s].coll = [x \in DOMAIN orig \ {name} |-> orig[x]]]} |->
      IF W.stores[s].file = 0 THEN W1 ELSE writeRoots(W1, s).W])])
RemoveCollection(W, s, name) ==
  Let([orig \in {W.stores[s].coll} |->
      [W EXCEPT !.stores[s].coll = [x \in DOMAIN orig \ {name} |-> orig[x]]]])

\* The order in which a range over the collection map yields the names
\* (Go leaves it open): ascending or descending.
RangeOrder(coll, ord) ==
  IF ord = "asc" THEN SortedNames(DOMAIN coll) ELSE Reverse(SortedNames(DOMAIN coll))

RECURSIVE FlushColls(_, _, _)
FlushColls(W, s, names) ==
  IF names = <<>> THEN [W |-> W, err |-> OK]
  ELSE
    Let([r1 \in {flushItems(W, s, RootPl(s, Head(names)))} |->
        IF r1.err # OK THEN r1
        ELSE
          Let([r2 \in {flushNodes(r1.W, s, RootPl(s, Head(names)))} |->
              IF r2.err # OK THEN r2
              ELSE FlushColls(r2.W, s, Tail(names))])])

ErrReadOnly == "readonly, so cannot Flush()"
ErrNoFile == "no file / in-memory only, so cannot Flush()"

Flush_unguarded(W, s, ord) ==
  IF W.stores[s].file = 0 THEN [W |-> W, err |-> ErrNoFile]
  ELSE
    Let([r \in {FlushColls(W, s, RangeOrder(W.stores[s].coll, ord))} |->
        IF r.err # OK THEN r ELSE writeRoots(r.W, s)])

Flush(W, s, ord) ==
  IF W.stores[s].readOnly THEN [W |-> W, err |-> ErrReadOnly]
  ELSE IF W.stores[s].file = 0 THEN [W |-> W, err |-> ErrNoFile]
  ELSE
    Let([r \in {FlushColls(W, s, RangeOrder(W.stores[s].coll, ord))} |->
        IF r.err # OK THEN r ELSE writeRoots(r.W, s)])

\* The Collection a snapshot holds for the collection c of the original.
SnapshotColl_empty(c) == [compare |-> c.compare, root |-> empty]
SnapshotColl(c) == [compare |-> c.compare, root |-> c.root]

Snapshot(W, s) ==
  Let([o \in {W.stores[s]} |->
  Let([res \in {
             [coll |-> [name \in DOMAIN o.coll |-> SnapshotColl(o.coll[name])],
              file |-> o.file, size |-> o.size, readOnly |-> TRUE]} |->
      [W |-> [W EXCEPT !.stores = Append(@, res)], s |-> Len(W.stores) + 1]])])

----------------------------------------------------------------------------
(* VisitItemsAscend and CopyTo.  An ItemVisitor is a record: "collect" is  *)
(* a caller's visitor that records its calls and returns false on call     *)
(* number stopAt (never, when stopAt is 0); "copy" is CopyTo's closure.    *)

CollectVisitor(stopAt) ==
  [kind |-> "collect", calls |-> <<>>, stopAt |-> stopAt,
   dst |-> 0, name |-> <<>>, numItems |-> 0, flushEvery |-> 0,
   errCopyItem |-> OK, ord |-> "asc"]

CopyVisitor(dst, name, flushEvery, ord) ==
  [kind |-> "copy", calls |-> <<>>, stopAt |-> 0,
   dst |-> dst, name |-> name, numItems |-> 0, flushEvery |-> flushEvery,
   errCopyItem |-> OK, ord |-> ord]

\* The *Item that CopyTo's closure hands to dstColl.SetItem: i itself.
CopyItem_zeroPriority(i) == [Key |-> Some(i.Key), Val |-> i.Val, Priority |-> 0]
CopyItem(i) == [Key |-> Some(i.Key), Val |-> i.Val, Priority |-> i.Priority]

\* visitor(i): the world and the visitor it leaves, and what it returns.
visitor(W, v, i) ==
  IF v.kind = "collect"
  THEN [W |-> W, v |-> [v EXCEPT !.calls = Append(@, i)],
        keep |-> Len(v.calls) + 1 # v.stopAt]
  ELSE
    Let([r \in {SetItem(W, v.dst, v.name, CopyItem(i))} |->
        IF r.err # OK
        THEN [W |-> r.W, v |-> [v EXCEPT !.errCopyItem = r.err], keep |-> FALSE]
        ELSE
          Let([n \in {v.numItems + 1} |->
              IF v.flushEvery > 0 /\ n % v.flushEvery = 0
              THEN
                Let([fl \in {Flush(r.W, v.dst, v.ord)} |->
                    [W |-> fl.W,
                     v |-> [v EXCEPT !.numItems = n, !.errCopyItem = fl.err],
                     keep |-> fl.err = OK]])
              ELSE [W |-> r.W, v |-> [v EXCEPT !.numItems = n], keep |-> TRUE]])])

\* The test of visitAscendNode: t.compare(target, nItem.Item().Key) <= 0
AtOrAfter_strict(cmp, target, key) == compare(cmp, target, key) < 0
AtOrAfter(cmp, target, key) == compare(cmp, target, key) <= 0

RECURSIVE visitAscendNode(_, _, _, _, _, _, _)
visitAscendNode(W, s, cmp, n, target, withValue, v) ==
  Let([r \in {nodeLoc_read(W, s, n)} |->
      IF r.err # OK THEN [W |-> r.W, v |-> v, keepGoing |-> FALSE, err |-> r.err]
      ELSE IF nodeLoc_isEmpty(Deref(r.W, n))
      THEN [W |-> r.W, v |-> v, keepGoing |-> TRUE, err |-> OK]
      ELSE
        Let([nd \in {Deref(r.W, n).node} |->
        Let([r2 \in {itemLoc_read(r.W, s, nd, FALSE)} |->
            IF r2.err # OK
            THEN [W |-> r2.W, v |-> v, keepGoing |-> FALSE, err |-> r2.err]
            ELSE IF AtOrAfter(cmp, target, ItemOf(r2.W, nd).Key)
            THEN
              Let([l \in {visitAscendNode(r2.W, s, cmp, LeftPl(nd), target, withValue, v)} |->
                  IF l.err # OK \/ ~l.keepGoing
                  THEN [W |-> l.W, v |-> l.v, keepGoing |-> FALSE, err |-> l.err]
                  ELSE
                    Let([r3 \in {itemLoc_read(l.W, s, nd, withValue)} |->
                        IF r3.err # OK
                        THEN [W |-> r3.W, v |-> l.v, keepGoing |-> FALSE,
                              err |-> r3.err]
                        ELSE
                          Let([c \in {visitor(r3.W, l.v, ItemOf(r3.W, nd))} |->
                              IF ~c.keep
                              THEN [W |-> c.W, v |-> c.v, keepGoing |-> FALSE,
                                    err |-> OK]
                              ELSE visitAscendNode(c.W, s, cmp, RightPl(nd), target,
                                                   withValue, c.v)])])])
            ELSE visitAscendNode(r2.W, s, cmp, RightPl(nd), target, withValue, v)])])])

VisitItemsAscend(W, s, c, target, withValue, v) ==
  Let([r \in {visitAscendNode(W, s, Cmp(W, s, c), RootPl(s, c), target, withValue, v)} |->
      [W |-> r.W, v |-> r.v, err |-> r.err]])

\* The body of CopyTo's loop over the source's collections.
RECURSIVE CopyColls(_, _, _, _, _, _)
CopyColls(W, s, dst, names, flushEvery, ord) ==
  IF names = <<>> THEN [W |-> W, err |-> OK]
  ELSE
    Let([name \in {Head(names)} |->
    Let([W1 \in {SetCollection(W, dst, name, Cmp(W, s, name))} |->
    Let([mi \in {MinItem(W1, s, name, TRUE)} |->
        IF mi.err # OK THEN [W |-> mi.W, err |-> mi.err]
        ELSE IF mi.item = Nil
        THEN CopyColls(mi.W, s, dst, Tail(names), flushEvery, ord)
        ELSE
          Let([vr \in {
                    VisitItemsAscend(mi.W, s, name, Val(mi.item).Key, TRUE,
                                     CopyVisitor(dst, name, flushEvery, ord))} |->
              IF vr.err # OK THEN [W |-> vr.W, err |-> vr.err]
              ELSE IF vr.v.errCopyItem # OK
              THEN [W |-> vr.W, err |-> vr.v.errCopyItem]
              ELSE CopyColls(vr.W, s, dst, Tail(names), flushEvery, ord)])])])])

\* CopyTo(dstFile, flushEvery).  When err is not nil no store is returned
\* (what was written to the file stays).
CopyTo(W, s, dstFile, flushEvery, ord) ==
  Let([ns \in {NewStore(W, dstFile)} |->
  LET Drop(W2) == [W2 EXCEPT !.stores = SubSeq(@, 1, Len(W.stores))]
  IN
      IF ns.err # OK THEN [W |-> ns.W, s |-> 0, err |-> ns.err]
      ELSE
        Let([r \in {
                 CopyColls(ns.W, s, ns.s, RangeOrder(W.stores[s].coll, ord),
                           flushEvery, ord)} |->
            IF r.err # OK THEN [W |-> Drop(r.W), s |-> 0, err |-> r.err]
            ELSE IF flushEvery > 0
            THEN
              Let([fl \in {Flush(r.W, ns.s, ord)} |->
                  IF fl.err # OK THEN [W |-> Drop(fl.W), s |-> 0, err |-> fl.err]
                  ELSE [W |-> fl.W, s |-> ns.s, err |-> OK]])
            ELSE [W |-> r.W, s |-> ns.s, err |-> OK]])])

----------------------------------------------------------------------------
(* The heap between operations: node structs no store reaches are dropped  *)
(* (Go's garbage collector) and the rest renumbered in the order a walk    *)
(* from the stores' roots meets them.  Addresses are not observable.       *)

RECURSIVE MarkFrom(_, _, _)
MarkFrom(N, a, order) ==
  IF a = 0 \/ \E i \in 1..Len(order) : order[i] = a THEN order
  ELSE MarkFrom(N, N[a].right.node, MarkFrom(N, N[a].left.node, Append(order, a)))

RECURSIVE MarkColls(_, _, _, _)
MarkColls(N, coll, names, order) ==
  IF names = <<>> THEN order
  ELSE MarkColls(N, coll, Tail(names), MarkFrom(N, coll[Head(names)].root.node, order))

RECURSIVE MarkStores(_, _, _)
MarkStores(W, s, order) ==
  IF s > Len(W.stores) THEN order
  ELSE MarkStores(W, s + 1,
                  MarkColls(W.nodes, W.stores[s].coll,
                            SortedNames(DOMAIN W.stores[s].coll), order))

Normalize(W) ==
  Let([order \in {MarkStores(W, 1, <<>>)} |->
  LET pos(a) == IF a = 0 THEN 0 ELSE CHOOSE i \in 1..Len(order) : order[i] = a
  IN
  LET ren(nl) == [loc |-> nl.loc, node |-> pos(nl.node)]
  IN
      [W EXCEPT
         !.nodes = [i \in 1..Len(order) |->
                      Let([n \in {W.nodes[order[i]]} |->
                          [item |-> n.item, left |-> ren(n.left), right |-> ren(n.right)]])],
         !.stores = [s \in 1..Len(W.stores) |->
                       Let([o \in {W.stores[s]} |->
                           [coll |-> [c \in DOMAIN o.coll |->
                                        [compare |-> o.coll[c].compare,
                                         root |-> ren(o.coll[c].root)]],
                            file |-> o.file, size |-> o.size,
                            readOnly |-> o.readOnly]])]]])

\* The world of the current state.
World == [nodes |-> nodes, stores |-> stores, files |-> files, io |-> NoFaults]

\* The next state holds the world W.
Commit(W) ==
  \E N \in {Normalize(W)} :
      nodes' = N.nodes /\ stores' = N.stores /\ files' = N.files

----------------------------------------------------------------------------
(* What a caller can see of a store.                                       *)

\* The in-order walk of the tree at nodeLoc n, every item loaded with its
\* value: the items in walk order.
RECURSIVE InOrder(_, _, _)
InOrder(W, s, n) ==
  Let([r \in {nodeLoc_read(W, s, n)} |->
      IF r.err # OK THEN [W |-> r.W, items |-> <<>>, err |-> r.err]
      ELSE IF nodeLoc_isEmpty(Deref(r.W, n))
      THEN [W |-> r.W, items |-> <<>>, err |-> OK]
      ELSE
        Let([nd \in {Deref(r.W, n).node} |->
        Let([l \in {InOrder(r.W, s, LeftPl(nd))} |->
            IF l.err # OK THEN l
            ELSE
              Let([i \in {itemLoc_read(l.W, s, nd, TRUE)} |->
                  IF i.err # OK THEN [W |-> i.W, items |-> <<>>, err |-> i.err]
                  ELSE
                    Let([rr \in {InOrder(i.W, s, RightPl(nd))} |->
                        IF rr.err # OK THEN rr
                        ELSE [W |-> rr.W,
                              items |-> l.items \o <<ItemOf(i.W, nd)>> \o rr.items,
                              err |-> OK]])])])])])

Walk(W, s, c) == InOrder(W, s, RootPl(s, c))

\* The keys of a sequence of items.
KeysOf(items) == {items[i].Key : i \in 1..Len(items)}

\* The collection c of store s as a caller sees it: the items of the walk
\* and, for each of their keys and each key of Probe, what Get returns and
\* what VisitItemsAscend from that key calls its visitor with.
CollView(W, s, c, Probe) ==
  Let([w \in {Walk(W, s, c)} |->
      [err |-> w.err, items |-> w.items,
       get |-> [k \in Probe \cup KeysOf(w.items) |->
                  Let([g \in {Get(W, s, c, k)} |->
                                              <<g.err, g.val>>])],
       visit |-> [k \in Probe \cup KeysOf(w.items) |->
                    Let([r \in {VisitItemsAscend(W, s, c, k, TRUE, CollectVisitor(0))} |->
                        <<r.err, r.v.calls>>])]]])

View(W, s, Probe) ==
  [c \in DOMAIN W.stores[s].coll |-> CollView(W, s, c, Probe)]

----------------------------------------------------------------------------
(* Inputs.                                                                 *)

NameA == <<97>>
NameB == <<98>>
NameC == <<99>>
KeyA == <<97>>
KeyB == <<98>>
KeyC == <<99>>
ValX == <<120>>
ValEmpty == <<>>               \* []byte{}: empty, not nil
ValMagic == MAGIC_END \o MAGIC_END

\* A key of n bytes.
LongKey(n) == [i \in 1..n |-> 122]

----------------------------------------------------------------------------
(* The operations as actions.  S is the set of stores the action may be    *)
(* called on; the other parameters are the sets its inputs are drawn from. *)

Stores(S) == S \cap (1..Len(stores))
Colls(s) == DOMAIN stores[s].coll

\* ret: the operation, the store it was called on, the error it returned
\* and (for the reads) what else it returned.
RetOut(op, s, err, out) == [op |-> op, s |-> s, err |-> err, out |-> out]
Ret(op, s, err) == RetOut(op, s, err, <<>>)

\* hist with key -> val added to (val # Nil) or removed from (val = Nil)
\* the map of collection c of store s.
ModelPut(s, c, key, val) ==
  Let([m \in {model[s][c]} |->
  Let([m2 \in {
            IF val = Nil THEN [k \in DOMAIN m \ {key} |-> m[k]]
            ELSE [k \in DOMAIN m \cup {key} |-> IF k = key THEN Val(val) ELSE m[k]]} |->
      [hist EXCEPT !.model[s][c] = m2]])])

\* The caller keeps to one comparator per tree: SetCollection changes the
\* comparator of an existing collection only while its tree is empty.
SameOrder(s, name, cmp) ==
  name \in Colls(s) =>
    \/ stores[s].coll[name].compare = (IF cmp = "nil" THEN "bytes" ELSE cmp)
    \/ nodeLoc_isEmpty(stores[s].coll[name].root)

\* The history variable: model[s][c] is the key -> value map that the writes
\* to collection c of store s make; durable is the view of the file's store
\* that the last successful Flush left; flushed lists, for each successful
\* Flush of the file's store, where its root record ends and that view;
\* snap is the view the original had when the snapshot was taken.
Hist0 == [model |-> <<EmptyMap>>, durable |-> Nil, flushed |-> <<>>, snap |-> Nil]

DoSetCollection(S, Names, Cmps) ==
  \E s \in Stores(S), name \in Names, cmp \in Cmps :
    /\ SameOrder(s, name, cmp)
    /\ Commit(SetCollection(World, s, name, cmp))
    /\ hist' = [hist EXCEPT !.model[s] =
                  [c \in DOMAIN @ \cup {name} |->
                     IF c \in DOMAIN @ THEN @[c] ELSE EmptyMap]]
    /\ ret' = Ret("SetCollection", s, OK)

DoRemoveCollection(S, Names) ==
  \E s \in Stores(S), name \in Names :
    /\ Commit(RemoveCollection(World, s, name))
    /\ hist' = [hist EXCEPT !.model[s] = [c \in DOMAIN @ \ {name} |-> @[c]]]
    /\ ret' = Ret("RemoveCollection", s, OK)

\* The items with a key of Keys, a value of Vals and a priority of Prios.
ItemsOf(Keys, Vals, Prios) ==
  {[Key |-> Some(k), Val |-> Some(v), Priority |-> p] :
     k \in Keys, v \in Vals, p \in Prios}

DoSetItem(S, Items) ==
  \E s \in Stores(S) : \E c \in Colls(s), item \in Items :
    \E r \in {SetItem(World, s, c, item)} :
        /\ Commit(r.W)
        /\ hist' = IF r.err = OK THEN ModelPut(s, c, Val(item.Key), item.Val)
                   ELSE hist
        /\ ret' = Ret("SetItem", s, r.err)

\* The slices of B, and the nil slice.
Opt(B) == {Some(b) : b \in B}
OptNil(B) == Opt(B) \cup {Nil}

\* Set(key, val), rand.Int() returning a number of Prios; key and val are
\* Nil or Some(bytes).
DoSet(S, Keys, Vals, Prios) ==
  \E s \in Stores(S) : \E c \in Colls(s), key \in Keys, val \in Vals, rnd \in Prios :
    \E r \in {Set(World, s, c, key, val, rnd)} :
        /\ Commit(r.W)
        /\ hist' = IF r.err = OK THEN ModelPut(s, c, Val(key), val) ELSE hist
        /\ ret' = Ret("Set", s, r.err)

DoDelete(S, Keys) ==
  \E s \in Stores(S) : \E c \in Colls(s), key \in Keys :
    \E r \in {Delete(World, s, c, key)} :
        /\ Commit(r.W)
        /\ hist' = IF r.err = OK THEN ModelPut(s, c, key, Nil) ELSE hist
        /\ ret' = Ret("Delete", s, r.err)

DoGet(S, Keys) ==
  \E s \in Stores(S) : \E c \in Colls(s), key \in Keys :
    \E r \in {Get(World, s, c, key)} :
        /\ Commit(r.W)
        /\ hist' = hist
        /\ ret' = RetOut("Get", s, r.err, r.val)

DoVisitItemsAscend(S, Keys, Stops) ==
  \E s \in Stores(S) :
    \E c \in Colls(s), target \in Keys, withValue \in BOOLEAN, stopAt \in Stops :
      \E r \in {VisitItemsAscend(World, s, c, target, withValue, CollectVisitor(stopAt))} :
          /\ Commit(r.W)
          /\ hist' = hist
          /\ ret' = RetOut("VisitItemsAscend", s, r.err,
                           [i \in 1..Len(r.v.calls) |-> r.v.calls[i].Key])

DoGetItem(S, Keys) ==
  \E s \in Stores(S) : \E c \in Colls(s), key \in Keys, withValue \in BOOLEAN :
    \E r \in {GetItem(World, s, c, key, withValue)} :
        /\ Commit(r.W)
        /\ hist' = hist
        /\ ret' = RetOut("GetItem", s, r.err, r.item)

DoMinItem(S) ==
  \E s \in Stores(S) : \E c \in Colls(s), withValue \in BOOLEAN :
    \E r \in {MinItem(World, s, c, withValue)} :
        /\ Commit(r.W)
        /\ hist' = hist
        /\ ret' = RetOut("MinItem", s, r.err, [c |-> c, item |-> r.item])

DoMaxItem(S) ==
  \E s \in Stores(S) : \E c \in Colls(s), withValue \in BOOLEAN :
    \E r \in {MaxItem(World, s, c, withValue)} :
        /\ Commit(r.W)
        /\ hist' = hist
        /\ ret' = RetOut("MaxItem", s, r.err, [c |-> c, item |-> r.item])

\* The world of the current state with the device faults io.
Faulty(io) == [World EXCEPT !.io = io]

\* SetItem, Set and Delete while the device has the faults of one of IOs.
DoSetItemFault(S, Items, IOs) ==
  \E s \in Stores(S), io \in IOs : \E c \in Colls(s), item \in Items :
    \E r \in {SetItem(Faulty(io), s, c, item)} :
        /\ Commit(r.W)
        /\ hist' = IF r.err = OK THEN ModelPut(s, c, Val(item.Key), item.Val)
                   ELSE hist
        /\ ret' = RetOut("SetItem", s, r.err, [c |-> c, io |-> io])

DoSetFault(S, Keys, Vals, Prios, IOs) ==
  \E s \in Stores(S), io \in IOs :
    \E c \in Colls(s), key \in Keys, val \in Vals, rnd \in Prios :
      \E r \in {Set(Faulty(io), s, c, key, val, rnd)} :
          /\ Commit(r.W)
          /\ hist' = IF r.err = OK THEN ModelPut(s, c, Val(key), val) ELSE hist
          /\ ret' = RetOut("Set", s, r.err, [c |-> c, io |-> io])

DoDeleteFault(S, Keys, IOs) ==
  \E s \in Stores(S), io \in IOs : \E c \in Colls(s), key \in Keys :
    \E r \in {Delete(Faulty(io), s, c, key)} :
        /\ Commit(r.W)
        /\ hist' = IF r.err = OK THEN ModelPut(s, c, key, Nil) ELSE hist
        /\ ret' = RetOut("Delete", s, r.err, [c |-> c, io |-> io])

\* The key -> value map of each collection of store s, from its walk.
ModelOfStore(W, s) ==
  [c \in DOMAIN W.stores[s].coll |->
     Let([q \in {Walk(W, s, c).items} |->
         [k \in KeysOf(q) |->
            Val((CHOOSE i \in {q[j] : j \in 1..Len(q)} : i.Key = k).Val)]])]

\* Flush of a store; Probe: the keys hist.durable records Get for.
DoFlush(S, Probe) ==
  \E s \in Stores(S), ord \in {"asc", "desc"} :
    \E r \in {Flush(World, s, ord)} :
        /\ Commit(r.W)
        /\ hist' = IF r.err = OK /\ stores[s].file = 1
                   THEN Let([v \in {View(r.W, s, Probe)} |->
                            [hist EXCEPT !.durable = Some(v),
                                         !.flushed = Append(@, [end |-> Size(r.W, s),
                                                                view |-> v])]])
                   ELSE hist
        /\ ret' = Ret("Flush", s, r.err)

\* The world with every node and item of store s loaded.
RECURSIVE LoadAll(_, _, _)
LoadAll(W, s, names) ==
  IF names = <<>> THEN W
  ELSE LoadAll(Walk(W, s, names[1]).W, s, Tail(names))

\* The file offsets of the node and item records of store 1's trees in W0.
RecordOffsets(W0) ==
  Let([W \in {LoadAll(W0, 1, SortedNames(DOMAIN W0.stores[1].coll))} |->
      LET locs == {W.stores[1].coll[c].root.loc : c \in DOMAIN W.stores[1].coll}
                    \cup {W.nodes[i].item.loc : i \in 1..Len(W.nodes)}
                    \cup {W.nodes[i].left.loc : i \in 1..Len(W.nodes)}
                    \cup {W.nodes[i].right.loc : i \in 1..Len(W.nodes)}
      IN  {l.Offset : l \in {x \in locs : ~ploc_isEmpty(x)}}])

\* The offsets at which a Flush of store 1 (collections in order ord)
\* writes: those of the records it gives a place, and that of its root
\* record.
WriteOffsets(ord) ==
  Let([r \in {Flush(World, 1, ord)} |->
      {o \in RecordOffsets(r.W) : o >= stores[1].size}
        \cup {Size(r.W, 1) - Len(RootBytes(json_Marshal(r.W.stores[1].coll), 0))}])

\* No fault, or one failing write.
WriteFaults(ord) ==
  {NoFaults} \cup
  {[NoFaults EXCEPT !.badWrites = {o}, !.written = k] :
     o \in WriteOffsets(ord), k \in {0, Huge}}

\* Flush while the device has no fault or fails one write.
DoFlushFault(S, Probe) ==
  \E s \in Stores(S), ord \in {"asc", "desc"} : \E io \in WriteFaults(ord) :
    \E r \in {Flush(Faulty(io), s, ord)} :
        /\ Commit(r.W)
        /\ hist' = IF r.err = OK /\ stores[s].file = 1
                   THEN Let([v \in {View(r.W, s, Probe)} |->
                            [hist EXCEPT !.durable = Some(v),
                                         !.flushed = Append(@, [end |-> Size(r.W, s),
                                                                view |-> v])]])
                   ELSE hist
        /\ ret' = RetOut("Flush", s, r.err, [io |-> io, log |-> r.W.io.log])

\* The process ends and a new one opens file f: NewStore(f), every store
\* and node struct of the old process gone.
Restart(f) == NewStore([nodes |-> <<>>, stores |-> <<>>, io |-> NoFaults, files |-> files], f)

DoReopen ==
  \E ns \in {Restart(1)} :
      /\ Commit(ns.W)
      /\ hist' = [hist EXCEPT !.model =
                    IF ns.err = OK THEN <<ModelOfStore(ns.W, 1)>> ELSE <<>>]
      /\ ret' = Ret("NewStore", ns.s, ns.err)

\* Snapshot of a store, while no snapshot is held.
DoSnapshot(S, Probe) ==
  \E s \in Stores(S) :
    \E r \in {Snapshot(World, s)} :
        /\ Len(stores) = 1
        /\ Commit(r.W)
        /\ hist' = [hist EXCEPT !.model = Append(@, @[s]),
                                !.snap = Some(View(World, s, Probe))]
        /\ ret' = RetOut("Snapshot", s, OK, r.s)

\* The process dies, the file keeps only its first n bytes (any n), and a
\* new process opens it.
DoCrash ==
  \E n \in 0..Len(files[1]) :
    \E ns \in {
              NewStore([nodes |-> <<>>, stores |-> <<>>, io |-> NoFaults,
                        files |-> [files EXCEPT ![1] = SubSeq(@, 1, n)]], 1)} :
        /\ Commit(ns.W)
        /\ hist' = [hist EXCEPT !.model =
                      IF ns.err = OK THEN <<ModelOfStore(ns.W, 1)>> ELSE <<>>]
        /\ ret' = RetOut("Crash", ns.s, ns.err, n)

\* The process ends, n zero bytes (n of Pads) are appended to the file, and
\* a new process opens it.
DoOpenPadded(Pads) ==
  \E n \in Pads :
    \E ns \in {
              NewStore([nodes |-> <<>>, stores |-> <<>>, io |-> NoFaults,
                        files |-> [files EXCEPT ![1] = @ \o [i \in 1..n |-> 0]]], 1)} :
        /\ Commit(ns.W)
        /\ hist' = [hist EXCEPT !.model =
                      IF ns.err = OK THEN <<ModelOfStore(ns.W, 1)>> ELSE <<>>]
        /\ ret' = RetOut("OpenPadded", ns.s, ns.err, n)

\* Bytes that end with MAGIC_END MAGIC_END, laid out as a root record at
\* file offset e without collections.  "good" is that root record; the
\* other kinds differ from it in one field: the offset of the footer, the
\* length of the footer, the first MAGIC_BEG, the length after the version,
\* the JSON of the collection map, the version.
Candidate(kind, e) ==
  Let([sJSON \in {IF kind = "json" THEN <<123, 120>> ELSE <<123, 125>>} |->
  Let([length \in {2 * Len(MAGIC_BEG) + 4 + 4 + Len(sJSON) + 8 + 4 + 2 * Len(MAGIC_END)} |->
      (IF kind = "magic" THEN MAGIC_END ELSE MAGIC_BEG) \o MAGIC_BEG
        \o PutUint(IF kind = "version" THEN VERSION + 1 ELSE VERSION, 4)
        \o PutUint(IF kind = "length0" THEN length + 1 ELSE length, 4)
        \o sJSON
        \o PutUint(IF kind = "offset" THEN e + length ELSE e, 8)
        \o PutUint(IF kind = "length" THEN length + 1 ELSE length, 4)
        \o MAGIC_END \o MAGIC_END])])

\* The process ends, a candidate of a kind of Kinds is appended to the file
\* and a new process opens it.
DoOpenTail(Kinds) ==
  \E kind \in Kinds :
    \E ns \in {
              NewStore([nodes |-> <<>>, stores |-> <<>>, io |-> NoFaults,
                        files |-> [files EXCEPT ![1] =
                                     @ \o Candidate(kind, Len(@))]], 1)} :
        /\ Commit(ns.W)
        /\ hist' = [hist EXCEPT !.model =
                      IF ns.err = OK THEN <<ModelOfStore(ns.W, 1)>> ELSE <<>>]
        /\ ret' = RetOut("OpenTail", ns.s, ns.err, kind)

\* CopyTo of a store to the nil file (dst 0) or to file 2, which the caller
\* has just created; the caller has let go of the store an earlier CopyTo
\* returned.
DoCopyTo(S, FlushEverys) ==
  \E s \in Stores(S), dst \in {0, 2}, flushEvery \in FlushEverys,
     ord \in {"asc", "desc"} :
    \E W0 \in {
              [nodes |-> nodes, stores |-> SubSeq(stores, 1, 1), io |-> NoFaults,
               files |-> [i \in 1..2 |-> IF i = 1 /\ Len(files) >= 1
                                         THEN files[1] ELSE <<>>]]} :
    \E r \in {CopyTo(W0, s, dst, flushEvery, ord)} :
        /\ Commit(r.W)
        /\ hist' = [hist EXCEPT !.model = IF r.err = OK THEN <<@[1], @[s]>>
                                          ELSE <<@[1]>>]
        /\ ret' = RetOut("CopyTo", s, r.err,
                         [dst |-> r.s, file |-> dst, flushEvery |-> flushEvery])

\* The worlds a process starts in: a memory-only store; a store on the
\* empty file 1; a store on a file 1 that an earlier process left, which
\* did SetCollection(NameA), SetItem of KeyA and of KeyB, and Flush.
MemWorld == NewStore([nodes |-> <<>>, stores |-> <<>>, io |-> NoFaults, files |-> <<>>], 0).W
FileWorld == NewStore([nodes |-> <<>>, stores |-> <<>>, io |-> NoFaults, files |-> <<<<>>>>], 1).W
SeedFiles ==
  Let([W1 \in {SetCollection(FileWorld, 1, NameA, "nil")} |->
  Let([W2 \in {
            SetItem(W1, 1, NameA,
                    [Key |-> Some(KeyA), Val |-> Some(ValX), Priority |-> 1]).W} |->
  Let([W3 \in {
            SetItem(W2, 1, NameA,
                    [Key |-> Some(KeyB), Val |-> Some(ValX), Priority |-> 0]).W} |->
      Flush(W3, 1, "asc").W.files])])])
SeedWorld == NewStore([nodes |-> <<>>, stores |-> <<>>, io |-> NoFaults, files |-> SeedFiles], 1).W

NoMaps == [heap |-> <<>>, objs |-> <<>>, cur |-> 0]

\* The process starts in world W0.
InitIn(W0) ==
  /\ nodes = W0.nodes
  /\ stores = W0.stores
  /\ files = W0.files
  /\ hist = [Hist0 EXCEPT !.model = <<ModelOfStore(W0, 1)>>]
  /\ ret = Ret("NewStore", 1, OK)
  /\ nops = 0
  /\ threads = <<>>
  /\ maps = NoMaps

InitMem == InitIn(MemWorld)
InitFile == InitIn(FileWorld)
InitAny == \E W0 \in {MemWorld, FileWorld, SeedWorld} : InitIn(W0)

----------------------------------------------------------------------------
(* SpecTreap: one memory-only store, every sequence of SetCollection,      *)
(* RemoveCollection, SetItem, Set and Delete over the inputs below.        *)

TreapKeys == {KeyA, KeyB, KeyC}
TreapVals == {ValX, ValEmpty}
MaxPrio == 1
MaxStop == 2
TreapPrios == (-1)..MaxPrio
TreapCmps == {"nil", "rev"}
\* Items SetItem refuses: a nil key, an empty key, a nil value.
BadItems ==
  {[Key |-> Nil, Val |-> Some(ValX), Priority |-> 0],
   [Key |-> Some(<<>>), Val |-> Some(ValX), Priority |-> 0],
   [Key |-> Some(KeyA), Val |-> Nil, Priority |-> 0]}
TreapItems == ItemsOf(TreapKeys, TreapVals, TreapPrios) \cup BadItems


\* An operation that is counted against a bound on the length of a run, and
\* one that is not.  Both are calls made while no other goroutine runs.
Tick(max) == nops < max /\ nops' = nops + 1 /\ threads' = threads /\ maps' = maps

Still == nops' = nops /\ threads' = threads /\ maps' = maps

NextTreap ==
  \/ Still /\ DoSetCollection({1}, {NameA}, TreapCmps)
  \/ Still /\ DoRemoveCollection({1}, {NameA})
  \/ Still /\ DoSetItem({1}, TreapItems)
  \/ Still /\ DoSet({1}, Opt(TreapKeys), Opt(TreapVals), TreapPrios)
  \/ Still /\ DoDelete({1}, TreapKeys)

SpecTreap == InitMem /\ [][NextTreap]_vars

AllStores == 1..Len(stores)

\* The keys of m in ascending order under cmp.
RECURSIVE SortedKeys(_, _)
SortedKeys(K, cmp) ==
  IF K = {} THEN <<>>
  ELSE LET m == CHOOSE x \in K : \A y \in K : compare(cmp, x, y) <= 0
       IN  <<m>> \o SortedKeys(K \ {m}, cmp)

\* C1: a collection is a map.  In every state, for every collection and
\* every key, Get returns without error the value of the key's most recent
\* Set/SetItem when no Delete of the key followed it, and nil when the key
\* was never set or was deleted last (model records exactly that).
C1_MapSemantics ==
  \A s \in AllStores :
    /\ DOMAIN model[s] = Colls(s)
    /\ \A c \in Colls(s) : \A k \in TreapKeys \cup DOMAIN model[s][c] :
         LET g == Get(World, s, c, k)
         IN  /\ g.err = OK
             /\ g.val = IF k \in DOMAIN model[s][c] THEN Some(model[s][c][k]) ELSE Nil

\* C1's case: a key was set twice with different values (the second Set a
\* no-higher priority than the root's), another key was deleted.
C1_Witness ==
  /\ ret.op = "Delete" /\ ret.err = OK
  /\ NameA \in Colls(1)
  /\ DOMAIN model[1][NameA] = {KeyA, KeyB}
  /\ model[1][NameA][KeyA] = ValEmpty

\* The item priorities of the loaded children of node struct n.
ChildPrios(n) ==
  {ItemOf(World, ch).Priority :
     ch \in {x \in {nodes[n].left.node, nodes[n].right.node} :
               x # 0 /\ nodes[x].item.item # Nil}}

\* C5: the heap invariant.  Every node's item priority is greater than or
\* equal to the item priority of each of its direct children.
C5_HeapInvariant ==
  \A n \in 1..Len(nodes) :
    nodes[n].item.item # Nil =>
      \A p \in ChildPrios(n) : ItemOf(World, n).Priority >= p

\* The keys of q are strictly ascending under cmp.
Ascending(q, cmp) ==
  \A i \in 1..(Len(q) - 1) : compare(cmp, q[i].Key, q[i + 1].Key) < 0

\* C6: the order invariant.  The in-order walk of every collection's tree
\* yields keys in strictly ascending order under the collection's comparator.
C6_OrderInvariant ==
  \A s \in AllStores : \A c \in Colls(s) :
    LET w == Walk(World, s, c)
    IN  w.err = OK /\ Ascending(w.items, Cmp(World, s, c))

\* C6's case: a Delete has returned and the tree holds two items.
C6_Witness ==
  /\ ret.op = "Delete" /\ ret.err = OK
  /\ \E c \in Colls(1) : Len(Walk(World, 1, c).items) = 2
  /\ Len(nodes) = 2

----------------------------------------------------------------------------
(* SpecVisit: one memory-only store with the reads: every sequence of      *)
(* SetCollection, SetItem, Delete, Get and VisitItemsAscend over the       *)
(* inputs below, the visitor stopping the traversal at any call or never.  *)

VisitPrios == {0, 1}
VisitItems == ItemsOf(TreapKeys, {ValX}, VisitPrios)

NextVisit ==
  \/ Still /\ DoSetCollection({1}, {NameA}, TreapCmps)
  \/ Still /\ DoSetItem({1}, VisitItems)
  \/ Still /\ DoDelete({1}, TreapKeys)
  \/ Still /\ DoGet({1}, TreapKeys)
  \/ Still /\ DoVisitItemsAscend({1}, TreapKeys, 0..MaxStop)

SpecVisit == InitMem /\ [][NextVisit]_vars

\* What VisitItemsAscend(target) must call the visitor with, the visitor
\* returning false on call number stopAt: the keys >= target of the
\* collection, ascending, cut after stopAt of them.
ExpectedCalls(s, c, target, stopAt) ==
  LET cmp == Cmp(World, s, c)
      ks == SortedKeys({k \in DOMAIN model[s][c] : compare(cmp, target, k) <= 0}, cmp)
  IN  IF stopAt > 0 /\ stopAt < Len(ks) THEN SubSeq(ks, 1, stopAt) ELSE ks

\* C8: VisitItemsAscend(target) calls the visitor once for each item with
\* key >= target, in ascending order, with the item's value when asked for
\* it, for no item with key < target and for none after the visitor
\* returned false; on an empty collection it makes no call.
C8_VisitAscend ==
  \A s \in AllStores : \A c \in Colls(s), target \in TreapKeys,
      withValue \in BOOLEAN, stopAt \in 0..MaxStop :
    LET r == VisitItemsAscend(World, s, c, target, withValue, CollectVisitor(stopAt))
        calls == r.v.calls
    IN  /\ r.err = OK
        /\ [i \in 1..Len(calls) |-> calls[i].Key] = ExpectedCalls(s, c, target, stopAt)
        /\ withValue =>
             \A i \in 1..Len(calls) : calls[i].Val = Some(model[s][c][calls[i].Key])

\* C8's case: a traversal from the middle key of three that the visitor
\* stopped after its first call.
C8_Witness ==
  /\ ret.op = "VisitItemsAscend" /\ ret.err = OK
  /\ ret.out = <<KeyB>>
  /\ NameA \in Colls(1)
  /\ DOMAIN model[1][NameA] = {KeyA, KeyB, KeyC}
  /\ Cmp(World, 1, NameA) = "bytes"

----------------------------------------------------------------------------
(* SpecValid: one memory-only store and the inputs SetItem and Set must    *)
(* refuse beside the shortest and the longest key they must accept.        *)

KeyMax == LongKey(MaxKeyLen)
KeyTooLong == LongKey(MaxKeyLen + 1)
ValidKeys == {KeyA, KeyMax}
ValidItems == ItemsOf(ValidKeys, {ValX, ValEmpty}, {0, 1})
\* Items SetItem must refuse.
RefusedItems ==
  BadItems \cup {[Key |-> Some(KeyTooLong), Val |-> Some(ValX), Priority |-> 0],
                 [Key |-> Nil, Val |-> Nil, Priority |-> 1]}

InitValid ==
  \E W1 \in {
            SetCollection(NewStore([nodes |-> <<>>, stores |-> <<>>, io |-> NoFaults,
                                    files |-> <<>>], 0).W, 1, NameA, "nil")} :
      /\ nodes = W1.nodes
      /\ stores = W1.stores
      /\ files = W1.files
      /\ hist = [Hist0 EXCEPT !.model = <<[c \in {NameA} |-> EmptyMap]>>]
      /\ ret = Ret("SetCollection", 1, OK)
      /\ nops = 0
      /\ threads = <<>>
      /\ maps = NoMaps

NextValid ==
  \/ Still /\ DoSetItem({1}, ValidItems \cup RefusedItems)
  \/ Still /\ DoSet({1}, OptNil(ValidKeys \cup {<<>>, KeyTooLong}), OptNil({ValX}), {0})
  \/ Still /\ DoDelete({1}, ValidKeys)

SpecValid == InitValid /\ [][NextValid]_vars

\* The items the contract refuses: no key, an empty key, a key of more
\* than 65535 bytes, no value.
Refused(item) ==
  \/ item.Key = Nil
  \/ item.Val = Nil
  \/ Len(Val(item.Key)) = 0
  \/ Len(Val(item.Key)) > 65535

\* C9: input validation.  In every state SetItem (and so Set) of an item
\* with a nil or empty key, a key longer than 65535 bytes or a nil value
\* returns an error and leaves stores, node structs and files as they were;
\* SetItem of any other item, keys of 1 and of 65535 bytes among them,
\* returns nil and Get of the key then returns the value.
C9_Validation ==
  \A s \in AllStores : \A c \in Colls(s) :
    /\ \A item \in ValidItems \cup RefusedItems :
         LET r == SetItem(World, s, c, item)
         IN  IF Refused(item) THEN r.err # OK /\ r.W = World
             ELSE /\ r.err = OK
                  /\ Get(r.W, s, c, Val(item.Key)).val = item.Val
    /\ \A key \in OptNil(ValidKeys \cup {<<>>, KeyTooLong}), val \in OptNil({ValX}) :
         LET r == Set(World, s, c, key, val, 0)
         IN  IF Refused([Key |-> key, Val |-> val])
             THEN r.err # OK /\ r.W = World
             ELSE r.err = OK /\ Get(r.W, s, c, Val(key)).val = val

\* C9's case: SetItem has just refused an item while the collection holds
\* both the 1-byte and the 65535-byte key.
C9_Witness ==
  /\ ret.op = "SetItem" /\ ret.err # OK
  /\ DOMAIN model[1][NameA] = {KeyA, KeyMax}
  /\ Len(KeyMax) = 65535
  /\ Get(World, 1, NameA, KeyMax).val = Some(model[1][NameA][KeyMax])

----------------------------------------------------------------------------
(* SpecFile: a store on file 1, which starts empty; SetCollection,         *)
(* RemoveCollection, SetItem, Delete, the reads, Flush, and restarts of    *)
(* the process (NewStore on the file), up to MaxOps operations.            *)

MaxOps == 5
FileKeys == {KeyA, KeyB}
FileVals == {ValX, ValMagic}
FilePrios == {0, 1}
FileItems == ItemsOf(FileKeys, FileVals, FilePrios)
FileNames == {NameA, NameB}

NextFile ==
  \/ Tick(MaxOps) /\ DoSetCollection({1}, FileNames, {"nil"})
  \/ Tick(MaxOps) /\ DoRemoveCollection({1}, FileNames)
  \/ Tick(MaxOps) /\ DoSetItem({1}, FileItems)
  \/ Tick(MaxOps) /\ DoDelete({1}, FileKeys)
  \/ Tick(MaxOps) /\ DoGetItem({1}, FileKeys)
  \/ Tick(MaxOps) /\ DoFlush({1}, FileKeys)
  \/ Tick(MaxOps) /\ DoReopen

SpecFile == InitFile /\ [][NextFile]_vars

\* C3: the Flush / reopen round trip.  Once a Flush has returned nil, a new
\* store opened on the file (default comparator) has the collection names
\* the flushed store had and, for every collection and key, returns from
\* Get and VisitItemsAscend what the flushed store returned; the values
\* include one that is MAGIC_END MAGIC_END.
C3_FlushReopen ==
  hist.durable # Nil =>
    LET ns == Restart(1)
    IN  /\ ns.err = OK
        /\ View(ns.W, ns.s, FileKeys) = Val(hist.durable)

\* C3's case: a second Flush has written a tree that holds the value
\* MAGIC_END MAGIC_END beside an item that the first Flush wrote.
C3_Witness ==
  /\ ret.op = "Flush" /\ ret.err = OK
  /\ hist.durable # Nil
  /\ NameA \in DOMAIN Val(hist.durable)
  /\ \E i, j \in 1..2 :
       /\ Len(Val(hist.durable)[NameA].items) = 2
       /\ Val(hist.durable)[NameA].items[i].Val = Some(ValMagic)
       /\ nodes[stores[1].coll[NameA].root.node].item.loc.Offset = 0
       /\ stores[1].coll[NameA].root.loc.Offset > 100

----------------------------------------------------------------------------
(* SpecSnap: a store (memory-only, on an empty file, or on a file with a   *)
(* flushed tree) and one snapshot of it; the original is written, flushed  *)
(* and read, the snapshot is read and flushed; up to MaxSnapOps operations.*)

MaxSnapOps == 5
SnapKeys == {KeyA, KeyB}
SnapItems == ItemsOf(SnapKeys, {ValEmpty}, {0, 1})
SnapNames == {NameA, NameB}

NextSnap ==
  \/ Tick(MaxSnapOps) /\ DoSetCollection({1}, SnapNames, {"nil"})
  \/ Tick(MaxSnapOps) /\ DoRemoveCollection({1}, SnapNames)
  \/ Tick(MaxSnapOps) /\ DoSetItem({1}, SnapItems)
  \/ Tick(MaxSnapOps) /\ DoDelete({1}, SnapKeys)
  \/ Tick(MaxSnapOps) /\ DoFlush({1, 2}, SnapKeys)
  \/ Tick(MaxSnapOps) /\ DoSnapshot({1}, SnapKeys)
  \/ Tick(MaxSnapOps) /\ DoGetItem({2}, SnapKeys)

SpecSnap == InitAny /\ [][NextSnap]_vars

\* C2: snapshot isolation.  Whatever SetItem, Delete, SetCollection,
\* RemoveCollection and Flush the original has done since the snapshot was
\* taken, the snapshot (store 2) has the collection names and, in every
\* collection, the items, the Get and the VisitItemsAscend results that the
\* original had when it was taken.
C2_SnapshotIsolation ==
  (hist.snap # Nil /\ Len(stores) >= 2) =>
    View(World, 2, SnapKeys) = Val(hist.snap)

\* C2's case: the original has just flushed and no longer has what the
\* snapshot, taken from a loaded or a not yet loaded tree, holds.
C2_Witness ==
  /\ ret.op = "Flush" /\ ret.s = 1 /\ ret.err = OK
  /\ Len(stores) = 2
  /\ hist.snap # Nil
  /\ NameA \in DOMAIN Val(hist.snap)
  /\ Len(Val(hist.snap)[NameA].items) = 2
  /\ NameA \in Colls(1) /\ NameB \in Colls(1)
  /\ Len(Walk(World, 1, NameA).items) = 1

\* C10: Flush on a snapshot returns the read-only error and Flush on a
\* memory-only store the no-file error, a different one; neither changes a
\* file, a store's size, or the location of a node or an item.
C10_FlushRefused ==
  /\ ErrReadOnly # ErrNoFile
  /\ \A s \in AllStores, ord \in {"asc", "desc"} :
       LET r == Flush(World, s, ord)
       IN  /\ stores[s].readOnly => r.err = ErrReadOnly /\ r.W = World
           /\ (~stores[s].readOnly /\ stores[s].file = 0) =>
                r.err = ErrNoFile /\ r.W = World

\* C10's case: Flush on the snapshot of a memory-only store has returned its
\* error while the tree holds an item that was never written.
C10_Witness ==
  /\ ret.op = "Flush" /\ ret.s = 2 /\ ret.err = ErrReadOnly
  /\ stores[2].readOnly /\ stores[1].file = 0
  /\ Flush(World, 1, "asc").err = ErrNoFile
  /\ \E n \in 1..Len(nodes) : ploc_isEmpty(nodes[n].item.loc)

----------------------------------------------------------------------------
(* SpecCrash: a store on file 1; after up to MaxCrashOps writes and        *)
(* flushes the process dies and the file is cut to a prefix.  A behaviour  *)
(* ends with the store that NewStore recovers from the prefix.  One of the *)
(* values a caller stores is itself the bytes of a root record.            *)

MaxCrashOps == 4
CrashKeys == {KeyA}
\* Where the value of KeyA lies when its item is the first thing written
\* after the root record of a store with the empty collection NameA.
FakeOffset ==
  Size(Flush(SetCollection(FileWorld, 1, NameA, "nil"), 1, "asc").W, 1)
    + 14 + Len(KeyA)
\* A value: the root record of a store without collections at FakeOffset.
ValFake == RootBytes(<<123, 125>>, FakeOffset)
CrashItems == ItemsOf(CrashKeys, {ValX, ValFake}, {0})

\* No operation follows the reopening of a cut file.
Running == ret.op # "Crash"

NextCrash ==
  \/ Running /\ Tick(MaxCrashOps) /\ DoSetCollection({1}, {NameA}, {"nil"})
  \/ Running /\ Tick(MaxCrashOps) /\ DoSetItem({1}, CrashItems)
  \/ Running /\ Tick(MaxCrashOps) /\ DoDelete({1}, CrashKeys)
  \/ Running /\ Tick(MaxCrashOps) /\ DoFlush({1}, CrashKeys)
  \/ Running /\ Still /\ DoCrash

SpecCrash == InitIn(FileWorld) /\ [][NextCrash]_vars

\* The view that the last Flush whose root record ends inside the first n
\* bytes left, Nil when no root record does.
LatestComplete(n) ==
  LET I == {i \in 1..Len(hist.flushed) : hist.flushed[i].end <= n}
  IN  IF I = {} THEN Nil
      ELSE Some(hist.flushed[CHOOSE i \in I : \A j \in I : j <= i].view)

\* C4: crash recovery.  When NewStore succeeds on a prefix of the file, the
\* store has exactly the collections and items of the most recent root
\* record that lies completely inside the prefix (none when there is no
\* such record).
C4_CrashRecovery ==
  (ret.op = "Crash" /\ ret.err = OK) =>
    LET e == LatestComplete(ret.out)
    IN  View(World, 1, CrashKeys) = IF e = Nil THEN EmptyMap ELSE Val(e)

----------------------------------------------------------------------------
(* SpecCopy: a store (memory-only, on an empty file, or on a file with a   *)
(* flushed tree) is written and copied with CopyTo, up to MaxCopyOps       *)
(* operations.                                                             *)

MaxCopyOps == 4
MaxFlushEvery == 3
CopyKeys == {KeyA, KeyB}
CopyItems == ItemsOf(CopyKeys, {ValX}, {0, 1})
CopyNames == {NameA, NameB}

NextCopy ==
  \/ Tick(MaxCopyOps) /\ DoSetCollection({1}, CopyNames, TreapCmps)
  \/ Tick(MaxCopyOps) /\ DoSetItem({1}, CopyItems)
  \/ Tick(MaxCopyOps) /\ DoDelete({1}, CopyKeys)
  \/ Tick(MaxCopyOps) /\ DoCopyTo({1}, 0..MaxFlushEvery)

SpecCopy == InitAny /\ [][NextCopy]_vars

\* C7: CopyTo equivalence.  CopyTo to a new file returns a store for every
\* flushEvery; the store CopyTo returns has the collection names of the
\* source, empty collections included, and in each collection the walk
\* yields the same items (key, value, priority) in the same order.
C7_CopyTo ==
  ret.op = "CopyTo" =>
    /\ ret.out.file # 0 => ret.err = OK
    /\ ret.err = OK =>
         /\ Colls(ret.out.dst) = Colls(ret.s)
         /\ \A c \in Colls(ret.s) :
              LET src == Walk(World, ret.s, c)
                  dst == Walk(World, ret.out.dst, c)
              IN  src.err = OK /\ dst.err = OK /\ dst.items = src.items

\* C7's case: CopyTo to a file, flushing at every item, of a source with
\* two items in one collection and none in another.
C7_Witness ==
  /\ ret.op = "CopyTo" /\ ret.err = OK
  /\ ret.out.file = 2 /\ ret.out.flushEvery = 1
  /\ Colls(ret.s) = {NameA, NameB}
  /\ Len(Walk(World, ret.s, NameA).items) = 2
  /\ Len(Walk(World, ret.s, NameB).items) = 0
  /\ Len(files[2]) > 0

----------------------------------------------------------------------------
(* SpecSnapWrite: a store and one snapshot of it.  Until the snapshot is   *)
(* taken the original is written and flushed; from then on the snapshot is *)
(* written (SetCollection, RemoveCollection, SetItem, Set, Delete) while   *)
(* the original is only read and flushed; up to MaxSnapWriteOps operations.*)

MaxSnapWriteOps == 5
NoSnapshot == Len(stores) = 1
Snapshotted == Len(stores) = 2

NextSnapWrite ==
  \/ Tick(MaxSnapWriteOps) /\ NoSnapshot /\ DoSetCollection({1}, SnapNames, {"nil"})
  \/ Tick(MaxSnapWriteOps) /\ NoSnapshot /\ DoSetItem({1}, SnapItems)
  \/ Tick(MaxSnapWriteOps) /\ DoFlush({1}, SnapKeys)
  \/ Tick(MaxSnapWriteOps) /\ DoSnapshot({1}, SnapKeys)
  \/ Tick(MaxSnapWriteOps) /\ Snapshotted /\ DoGetItem({1}, SnapKeys)
  \/ Tick(MaxSnapWriteOps) /\ DoSetCollection({2}, SnapNames, {"nil"})
  \/ Tick(MaxSnapWriteOps) /\ DoRemoveCollection({2}, SnapNames)
  \/ Tick(MaxSnapWriteOps) /\ DoSetItem({2}, SnapItems)
  \/ Tick(MaxSnapWriteOps) /\ DoSet({2}, Opt(SnapKeys), Opt({ValX}), {0})
  \/ Tick(MaxSnapWriteOps) /\ DoDelete({2}, SnapKeys)

SpecSnapWrite == InitAny /\ [][NextSnapWrite]_vars

\* C11: writes to a snapshot are not seen by the original.  Whatever
\* SetCollection, RemoveCollection, SetItem, Set and Delete the snapshot
\* (store 2) has done, the original has the collection names and, in every
\* collection, the items, the Get and the VisitItemsAscend results that it
\* had when the snapshot was taken.
C11_SnapshotWritesUnseen ==
  (hist.snap # Nil /\ Snapshotted) =>
    View(World, 1, SnapKeys) = Val(hist.snap)

\* C11's case: the snapshot has deleted an item of a tree it shares with the
\* original and no longer holds what the original holds.
C11_Witness ==
  /\ ret.op = "Delete" /\ ret.s = 2 /\ ret.err = OK
  /\ hist.snap # Nil
  /\ NameA \in Colls(1) /\ NameA \in Colls(2)
  /\ Len(Walk(World, 1, NameA).items) = 2
  /\ Len(Walk(World, 2, NameA).items) = 1

----------------------------------------------------------------------------
(* SpecPersist: a store on file 1 (empty, or holding a flushed tree that   *)
(* is loaded lazily) and at most one snapshot of it: every operation of    *)
(* the API but CopyTo, up to MaxPersistOps operations.                     *)

MaxPersistOps == 4
PersistKeys == {KeyA, KeyB}
PersistItems == ItemsOf(PersistKeys, {ValX}, {0, 1})

InitOnFile == \E W0 \in {FileWorld, SeedWorld} : InitIn(W0)

NextPersist ==
  \/ Tick(MaxPersistOps) /\ DoSetCollection({1}, {NameA, NameB}, {"nil"})
  \/ Tick(MaxPersistOps) /\ DoRemoveCollection({1}, {NameA})
  \/ Tick(MaxPersistOps) /\ DoSetItem({1}, PersistItems)
  \/ Tick(MaxPersistOps) /\ DoSet({1}, Opt(PersistKeys), Opt({ValEmpty}), {0})
  \/ Tick(MaxPersistOps) /\ DoDelete({1}, PersistKeys)
  \/ Tick(MaxPersistOps) /\ DoGet({1, 2}, PersistKeys)
  \/ Tick(MaxPersistOps) /\ DoMinItem({1, 2})
  \/ Tick(MaxPersistOps) /\ DoMaxItem({1, 2})
  \/ Tick(MaxPersistOps) /\ DoVisitItemsAscend({1, 2}, PersistKeys, {0})
  \/ Tick(MaxPersistOps) /\ DoSnapshot({1}, PersistKeys)
  \/ Tick(MaxPersistOps) /\ DoFlush({1}, PersistKeys)

SpecPersist == InitOnFile /\ [][NextPersist]_vars

\* What a new process that opens the file sees, given the files.
Reopened(fs) ==
  LET ns == NewStore([nodes |-> <<>>, stores |-> <<>>, io |-> NoFaults, files |-> fs], 1)
  IN  [err |-> ns.err,
       view |-> IF ns.err = OK THEN View(ns.W, ns.s, PersistKeys) ELSE <<>>]

\* C12: nothing is persisted before Flush.  A step of any operation but
\* Flush leaves the file as it is and the size of every store as it is (the
\* size of a new snapshot is its original's); and a store opened on the
\* file after the step sees what the last successful Flush held.
C12_NothingPersistedBeforeFlush ==
  [][ret'.op # "Flush" =>
       /\ files' = files
       /\ \A s \in 1..Len(stores) : stores'[s].size = stores[s].size
       /\ \A s \in (Len(stores) + 1)..Len(stores') :
            stores'[s].size = stores[1].size
       /\ hist'.durable # Nil =>
            Reopened(files') = [err |-> OK, view |-> Val(hist'.durable)]]_vars

\* C12's case: after a Flush, a Delete has emptied a collection of the
\* store on the file while the file still holds the flushed item.
C12_Witness ==
  /\ ret.op = "Delete" /\ ret.err = OK
  /\ hist.durable # Nil
  /\ NameA \in Colls(1) /\ NameA \in DOMAIN Val(hist.durable)
  /\ Len(Val(hist.durable)[NameA].items) = 1
  /\ Len(Walk(World, 1, NameA).items) = 0
  /\ stores[1].size = Len(files[1])

----------------------------------------------------------------------------
(* SpecEdge: a store (memory-only, on an empty file, or on a file with a   *)
(* flushed tree that is loaded lazily); SetCollection with the default and *)
(* with a caller's comparator, SetItem, Delete, MinItem and MaxItem.       *)

EdgeItems == ItemsOf(TreapKeys, {ValX, ValEmpty}, {0, 1})

NextEdge ==
  \/ Still /\ DoSetCollection({1}, {NameA}, TreapCmps)
  \/ Still /\ DoSetItem({1}, EdgeItems)
  \/ Still /\ DoDelete({1}, TreapKeys)
  \/ Still /\ DoMinItem({1})
  \/ Still /\ DoMaxItem({1})

SpecEdge == InitAny /\ [][NextEdge]_vars

\* C13: MinItem and MaxItem.  In every state and for every collection,
\* both return no error; on an empty collection both return nil; otherwise
\* MinItem returns the item of the smallest and MaxItem the item of the
\* largest key under the collection's comparator, with the key's value when
\* the value is asked for; on a single-item collection both return the
\* same item.
C13_MinMaxItem ==
  \A s \in AllStores : \A c \in Colls(s), withValue \in BOOLEAN :
    LET K == DOMAIN model[s][c]
        q == SortedKeys(K, Cmp(World, s, c))
        mn == MinItem(World, s, c, withValue)
        mx == MaxItem(World, s, c, withValue)
    IN  /\ mn.err = OK /\ mx.err = OK
        /\ K = {} => mn.item = Nil /\ mx.item = Nil
        /\ K # {} =>
             /\ mn.item # Nil /\ mx.item # Nil
             /\ Val(mn.item).Key = q[1]
             /\ Val(mx.item).Key = q[Len(q)]
             /\ withValue =>
                  /\ Val(mn.item).Val = Some(model[s][c][q[1]])
                  /\ Val(mx.item).Val = Some(model[s][c][q[Len(q)]])
        /\ Cardinality(K) = 1 => mn.item = mx.item

\* C13's case: MaxItem has returned the largest of three keys under the
\* caller's comparator (the reverse order).
C13_Witness ==
  /\ ret.op = "MaxItem" /\ ret.err = OK
  /\ ret.out.c = NameA
  /\ stores[1].coll[NameA].compare = "rev"
  /\ DOMAIN model[1][NameA] = TreapKeys
  /\ ret.out.item # Nil
  /\ Val(ret.out.item).Key = KeyA

----------------------------------------------------------------------------
(* A file that lost its last 5 bytes (SpecCrash, the prefix being all of   *)
(* the file but 5 bytes).                                                  *)

\* The file had been written by successful Flushes only, and the new
\* process has opened it without its last 5 bytes.
TruncatedOpen ==
  /\ ret.op = "Crash"
  /\ hist.flushed # <<>>
  /\ ret.out = hist.flushed[Len(hist.flushed)].end - 5

\* No value that a Flush wrote is itself the bytes of a root record.
NoRootInValues ==
  \A i \in 1..Len(hist.flushed) : \A c \in DOMAIN hist.flushed[i].view :
    \A j \in 1..Len(hist.flushed[i].view[c].items) :
      hist.flushed[i].view[c].items[j].Val # Some(ValFake)

----------------------------------------------------------------------------
(* SpecPad: a store on file 1, which starts empty; writes and Flushes, and *)
(* restarts of the process before which 1..MaxPad zero bytes are appended  *)
(* to the file; up to MaxPadOps operations.                                *)

MaxPad == 3
MaxPadOps == 6
PadKeys == {KeyA, KeyB}
PadItems == ItemsOf(PadKeys, {ValX, ValMagic}, {0})

\* The last operation that wrote the file is a Flush that returned nil.
Flushed == hist.flushed # <<>>

NextPad ==
  \/ Tick(MaxPadOps) /\ DoSetCollection({1}, {NameA}, {"nil"})
  \/ Tick(MaxPadOps) /\ DoSetItem({1}, PadItems)
  \/ Tick(MaxPadOps) /\ DoDelete({1}, PadKeys)
  \/ Tick(MaxPadOps) /\ DoFlush({1}, PadKeys)
  \/ Tick(MaxPadOps) /\ Flushed /\ DoOpenPadded(1..MaxPad)

SpecPad == InitFile /\ [][NextPad]_vars

\* C15: trailing zero bytes.  NewStore on a file that ends with the root
\* record of a successful Flush followed by zero bytes returns nil; the store
\* has the collections and items the flushed store had, and its size is the
\* end of that root record, below the size of the file.
C15_TrailingZeros ==
  ret.op = "OpenPadded" =>
    /\ ret.err = OK
    /\ View(World, 1, PadKeys) = Val(hist.durable)
    /\ stores[1].size = hist.flushed[Len(hist.flushed)].end
    /\ stores[1].size < Len(files[1])

\* C15's case: a file with the records of two Flushes, the later one's
\* tree holding the value MAGIC_END MAGIC_END, and MaxPad zero bytes after
\* them has been opened.
C15_Witness ==
  /\ ret.op = "OpenPadded" /\ ret.out = MaxPad
  /\ Len(hist.flushed) = 2
  /\ Len(files[1]) = hist.flushed[2].end + MaxPad
  /\ NameA \in Colls(1)
  /\ Get(World, 1, NameA, KeyA).val = Some(ValMagic)

----------------------------------------------------------------------------
(* SpecReadFault: a store on a file with a flushed tree that is loaded     *)
(* lazily; SetItem, Set and Delete while a read of the device fails at the *)
(* place of one node or item record (or of none), Get, Flush and restarts  *)
(* of the process; up to MaxFaultOps operations.                           *)

MaxFaultOps == 4
FaultKeys == {KeyA, KeyB, KeyC}
FaultItems == ItemsOf(FaultKeys, {ValX}, {0, 2})

\* No fault, or reads failing at the place of one record.
ReadFaults ==
  {NoFaults} \cup {[NoFaults EXCEPT !.badReads = {o}] : o \in RecordOffsets(World)}

NextReadFault ==
  \/ Tick(MaxFaultOps) /\ DoSetItemFault({1}, FaultItems, ReadFaults)
  \/ Tick(MaxFaultOps) /\ DoSetFault({1}, Opt({KeyB}), Opt({ValEmpty}), {1}, ReadFaults)
  \/ Tick(MaxFaultOps) /\ DoDeleteFault({1}, FaultKeys, ReadFaults)
  \/ Tick(MaxFaultOps) /\ DoGet({1}, FaultKeys)
  \/ Tick(MaxFaultOps) /\ DoFlush({1}, FaultKeys)
  \/ Tick(MaxFaultOps) /\ DoReopen

SpecReadFault == InitIn(SeedWorld) /\ [][NextReadFault]_vars

\* The world of the next state.
WorldNext == [nodes |-> nodes', stores |-> stores', files |-> files', io |-> NoFaults]

\* C16: a failed read leaves the collection as it was.  When SetItem, Set
\* or Delete returns the error of a failed ReadAt, the collection's root
\* still names the same persisted node, and the store has the collections,
\* the items and the Get and VisitItemsAscend results it had before the call.
C16_ReadErrorNoChange ==
  [][(ret'.op \in {"SetItem", "Set", "Delete"} /\ ret'.err = ErrRead) =>
       /\ \A c \in Colls(1) :
            /\ c \in DOMAIN stores'[1].coll
            /\ stores'[1].coll[c].root.loc = stores[1].coll[c].root.loc
       /\ View(WorldNext, 1, FaultKeys) = View(World, 1, FaultKeys)
       /\ hist'.model = hist.model]_vars

\* C16's case: a Delete has failed on the read of a record below the root,
\* after it had loaded the root of the flushed tree.
C16_Witness ==
  /\ ret.op = "Delete" /\ ret.err = ErrRead
  /\ NameA \in Colls(1)
  /\ stores[1].coll[NameA].root.node # 0
  /\ ~ploc_isEmpty(stores[1].coll[NameA].root.loc)
  /\ ret.out.io.badReads # {stores[1].coll[NameA].root.loc.Offset}
  /\ Len(Walk(World, 1, NameA).items) = 2

----------------------------------------------------------------------------
(* SpecWriteFault: a store on file 1, which starts empty; writes, Flushes  *)
(* during which the device fails one write (of an item, a node or the root *)
(* record, having written none or all but one of its bytes) or none, and   *)
(* restarts of the process; up to MaxWriteFaultOps operations.             *)

MaxWriteFaultOps == 5
WriteFaultKeys == {KeyA, KeyB}
WriteFaultItems == ItemsOf(WriteFaultKeys, {ValX}, {0, 1})

NextWriteFault ==
  \/ Tick(MaxWriteFaultOps) /\ DoSetCollection({1}, {NameA, NameB}, {"nil"})
  \/ Tick(MaxWriteFaultOps) /\ DoRemoveCollection({1}, {NameB})
  \/ Tick(MaxWriteFaultOps) /\ DoSetItem({1}, WriteFaultItems)
  \/ Tick(MaxWriteFaultOps) /\ DoDelete({1}, WriteFaultKeys)
  \/ Tick(MaxWriteFaultOps) /\ DoFlushFault({1}, WriteFaultKeys)
  \/ Tick(MaxWriteFaultOps) /\ DoReopen

SpecWriteFault == InitFile /\ [][NextWriteFault]_vars

\* The root record that a new process opening the files fs finds: where it
\* ends and what the store then holds; Nil when NewStore fails or the file
\* is empty.
FoundRoot(fs) ==
  LET ns == NewStore([nodes |-> <<>>, stores |-> <<>>, io |-> NoFaults,
                      files |-> fs], 1)
  IN  IF ns.err # OK \/ Size(ns.W, ns.s) = 0 THEN Nil
      ELSE Some([end |-> Size(ns.W, ns.s),
                 view |-> View(ns.W, ns.s, WriteFaultKeys)])

\* C17: a failed Flush.  A Flush that returns the error of a failed WriteAt
\* leaves the file without a new root record (a new process finds the root
\* record it would have found before) and leaves the collections and items
\* of the store as they were; a Flush that returns nil, after whatever
\* failed Flushes, leaves a root record at the end of the store from which
\* a new process reads what the store holds.
C17_FailedFlush ==
  [][ret'.op = "Flush" =>
       /\ ret'.err = ErrWrite =>
            /\ FoundRoot(files') = FoundRoot(files)
            /\ View(WorldNext, 1, WriteFaultKeys) = View(World, 1, WriteFaultKeys)
       /\ ret'.err = OK =>
            FoundRoot(files') =
              Some([end |-> stores'[1].size,
                    view |-> View(WorldNext, 1, WriteFaultKeys)])
       /\ ret'.err \in {OK, ErrWrite}]_vars

\* C17's case: a Flush has succeeded after a Flush that failed having
\* written all but the last byte of its root record, and after the store
\* lost a collection, so that the file is longer than the store.
C17_Witness ==
  /\ ret.op = "Flush" /\ ret.err = OK
  /\ Len(hist.flushed) = 1
  /\ Len(files[1]) > stores[1].size
  /\ Colls(1) = {NameA}

----------------------------------------------------------------------------
(* SpecTail: a store on file 1, which starts empty; after up to MaxTailOps *)
(* writes and Flushes, the last of them a Flush, the process ends, the     *)
(* file gets a tail that ends with MAGIC_END MAGIC_END (a root record, or  *)
(* a root record with one field wrong) and a new process opens it.         *)

MaxTailOps == 4
TailKeys == {KeyA}
TailItems == ItemsOf(TailKeys, {ValX}, {0})
TailKinds == {"good", "offset", "length", "magic", "length0", "json", "version"}

\* The file has not been given a tail.
NoTail == ret.op # "OpenTail"

NextTail ==
  \/ NoTail /\ Tick(MaxTailOps) /\ DoSetCollection({1}, {NameA, NameB}, {"nil"})
  \/ NoTail /\ Tick(MaxTailOps) /\ DoSetItem({1}, TailItems)
  \/ NoTail /\ Tick(MaxTailOps) /\ DoFlush({1}, TailKeys)
  \/ NoTail /\ Still /\ ret.op = "Flush" /\ DoOpenTail(TailKinds)

SpecTail == InitFile /\ [][NextTail]_vars

\* C18: a root candidate that fails validation.  When the file is the
\* records of successful Flushes followed by a candidate whose offset is
\* out of range, whose footer length is not p - offset, which does not
\* start with MAGIC_BEG MAGIC_BEG, whose embedded length is not the footer
\* length or whose collection map does not parse, NewStore returns nil and
\* the store is that of the last Flush (the scan went on below the
\* candidate); when the candidate has another version NewStore returns an
\* error.
C18_ScanContinues ==
  ret.op = "OpenTail" =>
    /\ ret.out \in {"offset", "length", "magic", "length0", "json"} =>
         /\ ret.err = OK
         /\ View(World, 1, TailKeys) = Val(hist.durable)
         /\ stores[1].size = hist.flushed[Len(hist.flushed)].end
    /\ ret.out = "version" => ret.err # OK

----------------------------------------------------------------------------
(* Goroutines.  A call of GetItem, Get, SetItem or Delete that runs while  *)
(* other calls run is an element of threads: the call (op, s, c, arg,      *)
(* withValue), its position pc and its local variables.  One step is one   *)
(* atomic load or store of a pointer field (sync/atomic) together with the *)
(* local computation that follows it.  The node structs a goroutine holds  *)
(* are addresses of the heap, so a step leaves the heap as it is (no       *)
(* struct is moved or collected while goroutines run).                     *)

Writers == {"SetItem", "Delete"}

\* The call op(arg) on collection c of store s, about to read the root.
Go(op, s, c, arg, withValue) ==
  [op |-> op, pc |-> "nread", s |-> s, c |-> c, arg |-> arg,
   withValue |-> withValue, rv |-> FALSE, n |-> RootPl(s, c), nd |-> 0,
   loc |-> ploc_empty, r |-> empty, out |-> Nil, err |-> OK]

At(g, pc) == [g EXCEPT !.pc = pc]

\* The call returns.
Return(g, out, err) == [g EXCEPT !.pc = "done", !.out = out, !.err = err]

\* Where a goroutine goes when its itemLoc.read returns nil: GetItem to its
\* key comparison after the read without value and to its return after the
\* read with value; union and split to the rest of their work.
AfterItemRead(g) ==
  IF g.op \in Writers THEN At(g, "rest")
  ELSE IF g.rv THEN At(g, "ret") ELSE At(g, "cmp")

\* nodeLoc.read: the test nloc.Node() == nil.
nodeLoc_read_Node(W, g) ==
  IF Deref(W, g.n).node # 0 THEN [W |-> W, g |-> At(g, "loop")]
  ELSE [W |-> W, g |-> At(g, "nloc")]

\* nodeLoc.read: loc := nloc.Loc() and the test loc.isEmpty().
nodeLoc_read_Loc(W, g) ==
  Let([loc \in {Deref(W, g.n).loc} |->
      IF ploc_isEmpty(loc) THEN [W |-> W, g |-> At(g, "loop")]
      ELSE [W |-> W, g |-> [g EXCEPT !.pc = "nstore", !.loc = loc]]])

\* nodeLoc.read: ReadAt, the new node struct, and the store of its address
\* into nloc.node (whatever nloc.node holds by now).
nodeLoc_read_Store(W, g) ==
  Let([r \in {nodeLoc_read(Assign(W, g.n, [loc |-> g.loc, node |-> 0]),
                           g.s, g.n)} |->
      IF r.err # OK THEN [W |-> W, g |-> [g EXCEPT !.pc = "loop", !.err = r.err]]
      ELSE
        Let([a \in {Deref(r.W, g.n).node} |->
            [W |-> Assign(Alloc(W, r.W.nodes[a]), g.n,
                          [Deref(W, g.n) EXCEPT !.node = a]),
             g |-> At(g, "loop")]])])

\* err != nil || n.isEmpty(): the error of the read, then the first operand
\* of isEmpty, nloc.Loc().isEmpty().
isEmpty_Loc(W, g) ==
  IF g.err # OK THEN [W |-> W, g |-> Return(g, Nil, g.err)]
  ELSE IF ploc_isEmpty(Deref(W, g.n).loc) THEN [W |-> W, g |-> At(g, "loop_node")]
  ELSE [W |-> W, g |-> At(g, "item")]

\* The second operand of isEmpty, nloc.Node() == nil.  GetItem returns
\* (nil, nil) from an empty tree; union and split go on with it.
isEmpty_Node(W, g) ==
  IF Deref(W, g.n).node # 0 THEN [W |-> W, g |-> At(g, "item")]
  ELSE IF g.op \in Writers THEN [W |-> W, g |-> At(g, "rest")]
  ELSE [W |-> W, g |-> Return(g, Nil, OK)]

\* i := &n.Node().item, before the itemLoc.read without value.
NodeItem(W, g) ==
  Let([nd \in {Deref(W, g.n).node} |->
      IF nd = 0
      THEN [W |-> W, g |-> Return(g, Nil, "panic: nil pointer dereference")]
      ELSE [W |-> W, g |-> [g EXCEPT !.pc = "iread", !.nd = nd, !.rv = FALSE]]])

\* itemLoc.read: iItem := i.Item() and the test on it.
itemLoc_read_Item(W, g) ==
  Let([iItem \in {W.nodes[g.nd].item.item} |->
      IF iItem = Nil \/ (Val(iItem).Val = Nil /\ g.rv)
      THEN [W |-> W, g |-> At(g, "iloc")]
      ELSE [W |-> W, g |-> AfterItemRead(g)]])

\* itemLoc.read: loc := i.Loc() and the test loc.isEmpty().
itemLoc_read_Loc(W, g) ==
  Let([loc \in {W.nodes[g.nd].item.loc} |->
      IF ploc_isEmpty(loc) THEN [W |-> W, g |-> AfterItemRead(g)]
      ELSE [W |-> W, g |-> [g EXCEPT !.pc = "istore", !.loc = loc]]])

\* itemLoc.read: ReadAt, the new Item, and the store of its address into
\* i.item (whatever i.item holds by now).
itemLoc_read_Store(W, g) ==
  Let([r \in {itemLoc_read(
                [W EXCEPT !.nodes[g.nd].item = [loc |-> g.loc, item |-> Nil]],
                g.s, g.nd, g.rv)} |->
      IF r.err # OK THEN [W |-> W, g |-> Return(g, Nil, r.err)]
      ELSE [W |-> [W EXCEPT !.nodes[g.nd].item.item = r.W.nodes[g.nd].item.item],
            g |-> AfterItemRead(g)]])

\* GetItem: iItem := i.Item(), the comparison and what it leads to.
GetItem_compare(W, g) ==
  Let([iItem \in {W.nodes[g.nd].item.item} |->
      IF iItem = Nil
      THEN [W |-> W,
            g |-> Return(g, Nil, "missing item after item.read() in GetItem()")]
      ELSE
        Let([c \in {compare(Cmp(W, g.s, g.c), g.arg, Val(iItem).Key)} |->
            IF c < 0 THEN [W |-> W, g |-> At(g, "left")]
            ELSE IF c > 0 THEN [W |-> W, g |-> At(g, "right")]
            ELSE IF g.withValue
            THEN [W |-> W, g |-> [g EXCEPT !.pc = "iread", !.rv = TRUE]]
            ELSE [W |-> W, g |-> At(g, "ret")]])])

\* GetItem: n = &n.Node().left or n = &n.Node().right.
GetItem_child(W, g) ==
  Let([nd \in {Deref(W, g.n).node} |->
      IF nd = 0
      THEN [W |-> W, g |-> Return(g, Nil, "panic: nil pointer dereference")]
      ELSE [W |-> W,
            g |-> [g EXCEPT !.pc = "nread",
                            !.n = IF g.pc = "left" THEN LeftPl(nd)
                                  ELSE RightPl(nd)]]])

\* GetItem: return i.Item(), nil; Get returns the Val of that item.
GetItem_return(W, g) ==
  Let([iItem \in {W.nodes[g.nd].item.item} |->
      IF g.op = "GetItem" THEN [W |-> W, g |-> Return(g, iItem, OK)]
      ELSE IF iItem # Nil THEN [W |-> W, g |-> Return(g, Val(iItem).Val, OK)]
      ELSE [W |-> W, g |-> Return(g, Nil, OK)]])

\* SetItem and Delete after the first itemLoc.read of union and split: the
\* rest of union, or of split and join, up to the root r that they return
\* (t.root is not assigned yet).
Writer_rest(W, g) ==
  Let([r \in {IF g.op = "SetItem" THEN SetItem(W, g.s, g.c, g.arg)
              ELSE Delete(W, g.s, g.c, g.arg)} |->
      IF r.err # OK THEN [W |-> r.W, g |-> Return(g, Nil, r.err)]
      ELSE [W |-> Assign(r.W, RootPl(g.s, g.c), Deref(W, RootPl(g.s, g.c))),
            g |-> [g EXCEPT !.pc = "root", !.r = Deref(r.W, RootPl(g.s, g.c))]]])

\* t.root = *r, a plain copy of a struct of two words: one word, then the
\* other (first names the word that is copied first).
Writer_root(W, g, first) ==
  Let([pl \in {RootPl(g.s, g.c)} |->
      CASE g.pc = "root" /\ first = "loc" ->
             [W |-> Assign(W, pl, [Deref(W, pl) EXCEPT !.loc = g.r.loc]),
              g |-> At(g, "root_node")]
        [] g.pc = "root" /\ first = "node" ->
             [W |-> Assign(W, pl, [Deref(W, pl) EXCEPT !.node = g.r.node]),
              g |-> At(g, "root_loc")]
        [] g.pc = "root_node" ->
             [W |-> Assign(W, pl, [Deref(W, pl) EXCEPT !.node = g.r.node]),
              g |-> Return(g, Nil, OK)]
        [] OTHER ->
             [W |-> Assign(W, pl, [Deref(W, pl) EXCEPT !.loc = g.r.loc]),
              g |-> Return(g, Nil, OK)]])

\* One step of goroutine g in world W.
Step(W, g, first) ==
  CASE g.pc = "nread" -> nodeLoc_read_Node(W, g)
    [] g.pc = "nloc" -> nodeLoc_read_Loc(W, g)
    [] g.pc = "nstore" -> nodeLoc_read_Store(W, g)
    [] g.pc = "loop" -> isEmpty_Loc(W, g)
    [] g.pc = "loop_node" -> isEmpty_Node(W, g)
    [] g.pc = "item" -> NodeItem(W, g)
    [] g.pc = "iread" -> itemLoc_read_Item(W, g)
    [] g.pc = "iloc" -> itemLoc_read_Loc(W, g)
    [] g.pc = "istore" -> itemLoc_read_Store(W, g)
    [] g.pc = "cmp" -> GetItem_compare(W, g)
    [] g.pc \in {"left", "right"} -> GetItem_child(W, g)
    [] g.pc = "ret" -> GetItem_return(W, g)
    [] g.pc = "rest" -> Writer_rest(W, g)
    [] OTHER -> Writer_root(W, g, first)

\* A goroutine starts a call of op on a collection of a store of S.
DoGo(S, max, Ops, Args) ==
  /\ Len(threads) < max
  /\ \E s \in Stores(S) : \E c \in Colls(s), op \in Ops, arg \in Args,
                             withValue \in BOOLEAN :
       /\ op = "Get" => withValue
       /\ op \in Writers =>
            /\ ~withValue
            /\ \A t \in DOMAIN threads :
                 threads[t].op \in Writers => threads[t].pc = "done"
       /\ threads' = Append(threads, Go(op, s, c, arg, withValue))
  /\ UNCHANGED <<nodes, stores, files, hist, ret, nops, maps>>

\* A goroutine that is at one of the positions PCs takes its step.
DoStep(PCs) ==
  \E t \in DOMAIN threads : \E first \in {"loc", "node"} :
    /\ threads[t].pc \in PCs
    /\ threads[t].pc # "root" => first = "loc"
    /\ \E r \in {Step(World, threads[t], first)} :
         /\ nodes' = r.W.nodes
         /\ stores' = r.W.stores
         /\ files' = r.W.files
         /\ threads' = [threads EXCEPT ![t] = r.g]
         /\ ret' = IF r.g.pc = "done"
                   THEN RetOut(r.g.op, r.g.s, r.g.err, r.g.out)
                   ELSE ret
         /\ hist' = IF r.g.pc = "done" /\ r.g.op \in Writers /\ r.g.err = OK
                    THEN IF r.g.op = "SetItem"
                         THEN ModelPut(r.g.s, r.g.c, Val(r.g.arg.Key), r.g.arg.Val)
                         ELSE ModelPut(r.g.s, r.g.c, r.g.arg, Nil)
                    ELSE hist
    /\ nops' = nops
    /\ maps' = maps

NodeReadPCs == {"nread", "nloc", "nstore"}
ItemReadPCs == {"iread", "iloc", "istore"}
GetItemPCs == {"loop", "loop_node", "item", "cmp", "left", "right", "ret"}
WriterPCs == {"rest", "root", "root_loc", "root_node"}

----------------------------------------------------------------------------
(* SpecLoadRace: goroutines call GetItem, with and without value, on the   *)
(* collection of a store that was just opened on a file holding two items, *)
(* so that they load the same nodes and items.                             *)

MaxReaders == 2
RaceKeys == {KeyA, KeyB}

NextLoadRace ==
  \/ DoGo({1}, MaxReaders, {"GetItem"}, RaceKeys)
  \/ DoStep(NodeReadPCs)
  \/ DoStep(ItemReadPCs)
  \/ DoStep(GetItemPCs)

SpecLoadRace == InitIn(SeedWorld) /\ [][NextLoadRace]_vars

\* C19: every GetItem(key, withValue = true) that runs while other GetItem
\* calls load the same persisted items returns, when it finds the key and
\* returns no error, an item whose Val is the stored value, never an item
\* with a nil Val.
C19_RacingLoadsBenign ==
  \A t \in DOMAIN threads :
    LET g == threads[t] IN
      (g.pc = "done" /\ g.withValue /\ g.err = OK /\ g.out # Nil)
        => Val(g.out).Val = Some(ValX)

----------------------------------------------------------------------------
(* SpecWriteRace: on the collection of a store that was just opened on a   *)
(* file holding the items a and b, one goroutine calls Get(a) while one    *)
(* goroutine at a time calls SetItem and Delete with the keys b and c.     *)

MaxRaceGos == 3
ReadKey == KeyA
WriteKeys == {KeyB, KeyC}
WriteItems == ItemsOf(WriteKeys, {ValX}, {0, 2})

\* No goroutine has called Get yet.
NoReader == \A t \in DOMAIN threads : threads[t].op # "Get"

NextWriteRace ==
  \/ NoReader /\ DoGo({1}, MaxRaceGos, {"Get"}, {ReadKey})
  \/ DoGo({1}, MaxRaceGos, {"SetItem"}, WriteItems)
  \/ DoGo({1}, MaxRaceGos, {"Delete"}, WriteKeys)
  \/ DoStep(NodeReadPCs)
  \/ DoStep(ItemReadPCs)
  \/ DoStep(GetItemPCs)
  \/ DoStep(WriterPCs)

SpecWriteRace == InitIn(SeedWorld) /\ [][NextWriteRace]_vars

\* C20: the Get(a) that runs while the one writer sets and deletes the keys
\* b and c returns the value of a, which no write changes.
C20_GetDuringWrites ==
  \A t \in DOMAIN threads :
    LET g == threads[t] IN
      (g.pc = "done" /\ g.op = "Get")
        => g.err = OK /\ g.out = Some(model[1][NameA][ReadKey])

----------------------------------------------------------------------------
(* Publication of the collection map.  A call of SetCollection,            *)
(* RemoveCollection or GetCollectionNames that runs while others run is an *)
(* element of threads; one step is one atomic operation on the pointer     *)
(* s.coll, or one read or write of a map or of a Collection struct.        *)

\* The map object and the Collection structs of the map coll.
MapsOf(coll) ==
  Let([names \in {SortedNames(DOMAIN coll)} |->
      [heap |-> <<[x \in DOMAIN coll |->
                     CHOOSE i \in 1..Len(names) : names[i] = x]>>,
       objs |-> [i \in 1..Len(names) |-> coll[names[i]]],
       cur |-> 1]])

\* *s.coll: the map s.coll points to, by value.
CollOf(M) ==
  [x \in DOMAIN M.heap[M.cur] |-> M.objs[M.heap[M.cur][x]]]

\* copyColl that returns the map it was given.
copyColl_alias(M, orig) == [M |-> M, coll |-> orig]

\* copyColl(*orig): a new map with the entries of the map at orig.
copyColl(M, orig) ==
  [M |-> [M EXCEPT !.heap = Append(@, M.heap[orig])],
   coll |-> Len(M.heap) + 1]

\* atomic.CompareAndSwapPointer(&s.coll, old, new)
CompareAndSwapPointer(M, old, new) ==
  IF M.cur = old THEN [M |-> [M EXCEPT !.cur = new], ok |-> TRUE]
  ELSE [M |-> M, ok |-> FALSE]

\* The call op(name, compare) on store 1, about to load s.coll.
GoMap(op, name, cmp) ==
  [op |-> op, pc |-> "load", s |-> 1, name |-> name,
   compare |-> IF cmp = "nil" THEN "bytes" ELSE cmp,
   orig |-> 0, coll |-> 0, tries |-> 0, out |-> Nil, err |-> OK]

\* One step of SetCollection.
SetCollection_step(M, g) ==
  CASE g.pc = "load" ->
         [M |-> M, g |-> [g EXCEPT !.pc = "copy", !.orig = M.cur]]
    [] g.pc = "copy" ->
         Let([r \in {copyColl(M, g.orig)} |->
             [M |-> r.M, g |-> [g EXCEPT !.pc = "put", !.coll = r.coll]]])
    [] g.pc = "put" ->
         IF g.name \in DOMAIN M.heap[g.coll] THEN [M |-> M, g |-> At(g, "compare")]
         ELSE
           [M |-> [M EXCEPT
                     !.objs = Append(@, [compare |-> g.compare, root |-> empty]),
                     !.heap[g.coll] =
                        WithColl(@, g.name, Len(M.objs) + 1)],
            g |-> At(g, "compare")]
    [] g.pc = "compare" ->
         [M |-> [M EXCEPT !.objs[M.heap[g.coll][g.name]].compare = g.compare],
          g |-> At(g, "cas")]
    [] OTHER ->
         Let([r \in {CompareAndSwapPointer(M, g.orig, g.coll)} |->
             IF r.ok
             THEN [M |-> r.M, g |-> Return(g, Some(M.heap[g.coll][g.name]), OK)]
             ELSE [M |-> r.M,
                   g |-> [g EXCEPT !.pc = "load", !.tries = @ + 1]]])

\* One step of RemoveCollection.
RemoveCollection_step(M, g) ==
  CASE g.pc = "load" ->
         [M |-> M, g |-> [g EXCEPT !.pc = "copy", !.orig = M.cur]]
    [] g.pc = "copy" ->
         Let([r \in {copyColl(M, g.orig)} |->
             [M |-> r.M, g |-> [g EXCEPT !.pc = "put", !.coll = r.coll]]])
    [] g.pc = "put" ->
         [M |-> [M EXCEPT !.heap[g.coll] =
                    [x \in DOMAIN @ \ {g.name} |-> @[x]]],
          g |-> At(g, "cas")]
    [] OTHER ->
         Let([r \in {CompareAndSwapPointer(M, g.orig, g.coll)} |->
             IF r.ok THEN [M |-> r.M, g |-> Return(g, Nil, OK)]
             ELSE [M |-> r.M,
                   g |-> [g EXCEPT !.pc = "load", !.tries = @ + 1]]])

\* One step of GetCollectionNames: the load of s.coll, then the range over
\* the map (out is the set of the names it yields).
GetCollectionNames_step(M, g) ==
  IF g.pc = "load" THEN [M |-> M, g |-> [g EXCEPT !.pc = "range", !.orig = M.cur]]
  ELSE [M |-> M, g |-> Return(g, DOMAIN M.heap[g.orig], OK)]

MapStep(M, g) ==
  CASE g.op = "SetCollection" -> SetCollection_step(M, g)
    [] g.op = "RemoveCollection" -> RemoveCollection_step(M, g)
    [] OTHER -> GetCollectionNames_step(M, g)

\* A goroutine starts a call of op.
DoGoMap(max, Ops, Names, Cmps) ==
  /\ Len(threads) < max
  /\ \E op \in Ops, name \in Names, cmp \in Cmps :
       threads' = Append(threads, GoMap(op, name, cmp))
  /\ UNCHANGED <<nodes, stores, files, hist, ret, nops, maps>>

\* A goroutine that runs a call of Ops takes its step.  The history follows
\* the successful compare-and-swaps.
DoMapStep(Ops) ==
  \E t \in DOMAIN threads :
    /\ threads[t].op \in Ops
    /\ threads[t].pc # "done"
    /\ \E r \in {MapStep(maps, threads[t])} :
         /\ maps' = r.M
         /\ threads' = [threads EXCEPT ![t] = r.g]
         /\ stores' = [stores EXCEPT ![1].coll = CollOf(r.M)]
         /\ ret' = IF r.g.pc = "done"
                   THEN RetOut(r.g.op, 1, r.g.err, r.g.out)
                   ELSE ret
         /\ hist' = IF r.M.cur = maps.cur THEN hist
                    ELSE [hist EXCEPT !.model[1] =
                            [c \in DOMAIN r.M.heap[r.M.cur] |->
                               IF c \in DOMAIN @ THEN @[c] ELSE EmptyMap]]
    /\ UNCHANGED <<nodes, files, nops>>

----------------------------------------------------------------------------
(* SpecPublish: a memory-only store that holds the collection b; the       *)
(* goroutines call SetCollection with the names a and c, RemoveCollection  *)
(* with the name b, and GetCollectionNames.                                *)

MaxMapGos == 3
SetNames == {NameA, NameC}
RemoveNames == {NameB}

InitPublish ==
  \E W0 \in {SetCollection(MemWorld, 1, NameB, "nil")} :
    /\ nodes = W0.nodes
    /\ stores = W0.stores
    /\ files = W0.files
    /\ hist = [Hist0 EXCEPT !.model = <<ModelOfStore(W0, 1)>>]
    /\ ret = Ret("SetCollection", 1, OK)
    /\ nops = 0
    /\ threads = <<>>
    /\ maps = MapsOf(W0.stores[1].coll)

NextPublish ==
  \/ DoGoMap(MaxMapGos, {"SetCollection"}, SetNames, {"nil", "rev"})
  \/ DoGoMap(MaxMapGos, {"RemoveCollection"}, RemoveNames, {"nil"})
  \/ DoGoMap(MaxMapGos, {"GetCollectionNames"}, {NameA}, {"nil"})
  \/ DoMapStep({"SetCollection"})
  \/ DoMapStep({"RemoveCollection"})
  \/ DoMapStep({"GetCollectionNames"})

SpecPublish == InitPublish /\ [][NextPublish]_vars

\* The maps that s.coll points to or has pointed to, or that a reader holds.
Published(M, T) ==
  {M.cur} \cup {T[t].orig : t \in {u \in DOMAIN T : T[u].pc # "load"}}

\* Every SetCollection that returned has its name in the map, with the
\* Collection it returned; no RemoveCollection that returned has.
NoLostUpdate(M, T) ==
  \A t \in DOMAIN T :
    T[t].pc = "done" =>
      /\ T[t].op = "SetCollection" =>
           /\ T[t].name \in DOMAIN M.heap[M.cur]
           /\ T[t].out = Some(M.heap[M.cur][T[t].name])
      /\ T[t].op = "RemoveCollection" => T[t].name \notin DOMAIN M.heap[M.cur]

\* C21: SetCollection and RemoveCollection calls on different names that
\* run concurrently lose no update (the map holds every name that a returned
\* SetCollection set and none that a returned RemoveCollection removed), two
\* SetCollection calls on one new name return the same Collection, and no
\* step modifies a map that s.coll points to, has pointed to, or that a
\* call has loaded.
C21_MapPublication ==
  [][/\ \A p \in Published(maps, threads) : maps'.heap[p] = maps.heap[p]
     /\ NoLostUpdate(maps', threads')
     /\ \A t, u \in DOMAIN threads' :
          (/\ threads'[t].pc = "done" /\ threads'[u].pc = "done"
           /\ threads'[t].op = "SetCollection" /\ threads'[u].op = "SetCollection"
           /\ threads'[t].name = threads'[u].name)
            => threads'[t].out = threads'[u].out]_vars

\* Two SetCollection calls on the name a and a RemoveCollection have
\* returned, one of them after a failed compare-and-swap.
C21_Witness ==
  /\ Len(threads) = 3
  /\ \A t \in DOMAIN threads : threads[t].pc = "done"
  /\ threads[1].op = "SetCollection" /\ threads[1].name = NameA
  /\ threads[2].op = "SetCollection" /\ threads[2].name = NameA
  /\ threads[3].op = "RemoveCollection"
  /\ threads[2].tries > 0 /\ threads[3].tries > 0
  /\ DOMAIN maps.heap[maps.cur] = {NameA}

----------------------------------------------------------------------------
(* Append-only writes, under SpecWriteFault: the WriteAt calls of a Flush  *)
(* (ret.out.log) against the append cursor o.size and the file.            *)

\* Where o.size stands before the i-th WriteAt of a call that started with
\* o.size = size: every successful WriteAt before it has advanced it.
RECURSIVE CursorAt(_, _, _)
CursorAt(size, log, i) ==
  IF i <= 1 THEN size
  ELSE CursorAt(size, log, i - 1)
         + (IF log[i - 1].ok THEN log[i - 1].n ELSE 0)

\* The end of the root record of the last Flush that returned nil.
LastRootEnd ==
  IF hist.flushed = <<>> THEN 0 ELSE hist.flushed[Len(hist.flushed)].end

\* Every WriteAt of the Flush is issued at o.size, and o.size advances by
\* the successful writes and by nothing else.
WritesAtSize ==
  /\ \A i \in DOMAIN ret'.out.log :
       ret'.out.log[i].off = CursorAt(stores[1].size, ret'.out.log, i)
  /\ stores'[1].size =
       CursorAt(stores[1].size, ret'.out.log, Len(ret'.out.log) + 1)
  /\ stores'[1].size >= stores[1].size

\* C22 as stated: every write is issued at o.size, which never decreases
\* and advances only after a successful write, and no write touches a byte
\* below the end of the most recent complete root record or a byte written
\* before (every byte of the file was written by a WriteAt).
C22_AppendOnly ==
  [][/\ ret'.op = "Flush" =>
          /\ WritesAtSize
          /\ \A i \in DOMAIN ret'.out.log :
               ret'.out.log[i].n > 0 =>
                 /\ ret'.out.log[i].off >= LastRootEnd
                 /\ ret'.out.log[i].off >= Len(files[1])
     /\ ret'.op \notin {"Flush", "NewStore"} =>
          /\ files' = files
          /\ stores'[1].size = stores[1].size]_vars

\* C22, amended: every write is issued at o.size, which never decreases and
\* advances only after a successful write; no write touches a byte below
\* o.size, and o.size is never below the end of the most recent complete
\* root record.  (Bytes at and above o.size, left by a WriteAt that failed,
\* are written again.)
C22_AppendAtSize ==
  [][/\ ret'.op = "Flush" =>
          /\ WritesAtSize
          /\ stores[1].size >= LastRootEnd
          /\ \A i \in DOMAIN ret'.out.log :
               /\ ret'.out.log[i].off >= stores[1].size
               /\ ret'.out.log[i].off >= LastRootEnd
          /\ SubSeq(files'[1], 1, stores[1].size)
               = SubSeq(files[1], 1, stores[1].size)
     /\ ret'.op \notin {"Flush", "NewStore"} =>
          /\ files' = files
          /\ stores'[1].size = stores[1].size]_vars

\* A Flush has returned nil after its WriteAt calls wrote over bytes that a
\* failed Flush had left above o.size: some of those bytes still lie above
\* the new o.size.
C22_Witness ==
  /\ ret.op = "Flush" /\ ret.err = OK
  /\ Len(ret.out.log) >= 1
  /\ ret.out.log[1].off < Len(files[1]) - ret.out.log[1].n
  /\ Len(files[1]) > stores[1].size

----------------------------------------------------------------------------
(* Children before parents, under SpecWriteFault.                          *)

\* The nodeLocs of world W: the roots of store 1's collections and the left
\* and right fields of the node structs.
NodeLocs(W) ==
  {W.stores[1].coll[c].root : c \in DOMAIN W.stores[1].coll}
    \cup {W.nodes[i].left : i \in DOMAIN W.nodes}
    \cup {W.nodes[i].right : i \in DOMAIN W.nodes}

\* Every nodeLoc of W that has a location and whose node struct is loaded
\* has an item with a location and children that are empty or have a
\* location, all of them at lower offsets than its own.
ChildrenFirst(W) ==
  \A nl \in NodeLocs(W) :
    (~ploc_isEmpty(nl.loc) /\ nl.node # 0) =>
      LET n == W.nodes[nl.node] IN
        /\ ~ploc_isEmpty(n.item.loc)
        /\ n.item.loc.Offset < nl.loc.Offset
        /\ \A ch \in {n.left, n.right} :
             ~nodeLoc_isEmpty(ch) =>
               /\ ~ploc_isEmpty(ch.loc)
               /\ ch.loc.Offset < nl.loc.Offset

\* The records of the files fs that a new process reaches from the root
\* record it finds: the root record refers to node records below its own
\* offset, and the node records are as ChildrenFirst says.
RecordsChildrenFirst(fs) ==
  LET ns == NewStore([nodes |-> <<>>, stores |-> <<>>, io |-> NoFaults,
                      files |-> fs], 1)
  IN  (ns.err = OK /\ Size(ns.W, 1) > 0) =>
        LET coll == ns.W.stores[1].coll
            W == LoadAll(ns.W, 1, SortedNames(DOMAIN coll))
            start == Size(ns.W, 1) - Len(RootBytes(json_Marshal(coll), 0))
        IN  /\ ChildrenFirst(W)
            /\ \A c \in DOMAIN coll :
                 ~ploc_isEmpty(coll[c].root.loc) => coll[c].root.loc.Offset < start

\* C23: in every state, also after a Flush that failed part-way, every
\* nodeLoc with a file location has an item with a file location and
\* non-empty children with file locations, in memory as it is and with the
\* whole tree loaded; on the file, the root record and every node record
\* refer only to records at offsets lower than their own.
C23_ChildrenBeforeParents ==
  /\ stores # <<>> =>
       /\ ChildrenFirst(World)
       /\ ChildrenFirst(LoadAll(World, 1, SortedNames(Colls(1))))
  /\ RecordsChildrenFirst(files)

\* A Flush failed when it wrote the node record of the root of a: the
\* child of the root has a location, the root has none.
C23_Witness ==
  /\ ret.op = "Flush" /\ ret.err = ErrWrite
  /\ NameA \in Colls(1)
  /\ ploc_isEmpty(stores[1].coll[NameA].root.loc)
  /\ stores[1].coll[NameA].root.node # 0
  /\ \E ch \in {nodes[stores[1].coll[NameA].root.node].left,
                nodes[stores[1].coll[NameA].root.node].right} :
       ~ploc_isEmpty(ch.loc)

----------------------------------------------------------------------------
(* The recovery scan step by step.  A call of NewStore on file 1 is the    *)
(* element of threads; it is at "stat" before readRoots has read the size  *)
(* of the file, at "scan" while o.size (stores[1].size) is the candidate   *)
(* position, and at "done" when NewStore has returned err.                 *)

GoNewStore == [op |-> "NewStore", pc |-> "stat", s |-> 1, out |-> Nil, err |-> OK]

\* atomic.AddInt64(&o.size, -1) that adds nothing.
ScanRetry_stay(W, s) == W

\* atomic.AddInt64(&o.size, -1)
ScanRetry(W, s) == [W EXCEPT !.stores[s].size = @ - 1]

\* readRoots up to its loop: o.size is the size of the file, and an empty
\* file is a store without collections.
DoStat ==
  /\ threads # <<>> /\ threads[1].pc = "stat"
  /\ stores' = [stores EXCEPT ![1].size = Len(files[1])]
  /\ threads' = [threads EXCEPT ![1] =
                   IF Len(files[1]) <= 0 THEN Return(@, Nil, OK) ELSE At(@, "scan")]
  /\ ret' = IF Len(files[1]) <= 0 THEN Ret("NewStore", 1, OK) ELSE ret
  /\ UNCHANGED <<nodes, files, hist, nops, maps>>

\* One pass of the scan at the candidate position o.size, when what it does
\* is of Kinds: "retry" decrements o.size, "fail" returns the error, "found"
\* installs the collection map and returns nil.
DoScan(Kinds) ==
  /\ threads # <<>> /\ threads[1].pc = "scan"
  /\ \E st \in {readRootsStep(World, 1, stores[1].size)} :
       /\ st.kind \in Kinds
       /\ \E W \in {IF st.kind = "retry" THEN ScanRetry(World, 1)
                    ELSE IF st.kind = "fail" THEN World
                    ELSE [World EXCEPT !.stores[1].coll =
                            [name \in DOMAIN st.m |->
                               [compare |-> "bytes",
                                root |-> [loc |-> st.m[name], node |-> 0]]]]} :
            /\ stores' = W.stores
            /\ hist' = IF st.kind = "found"
                       THEN [hist EXCEPT !.model = <<ModelOfStore(W, 1)>>]
                       ELSE hist
       /\ threads' = [threads EXCEPT ![1] =
                        IF st.kind = "retry" THEN @ ELSE Return(@, Nil, st.err)]
       /\ ret' = IF st.kind = "retry" THEN ret ELSE Ret("NewStore", 1, st.err)
  /\ UNCHANGED <<nodes, files, nops, maps>>

----------------------------------------------------------------------------
(* SpecScan: NewStore on a file of ScanFiles: every prefix of the file of  *)
(* a Flush of two items, that file with up to MaxScanPad zero bytes or     *)
(* with a root candidate of each kind after it, that file twice, and files *)
(* that hold nothing but zero bytes or MAGIC_END.                          *)

MaxScanPad == 3

ScanFiles ==
  Let([F \in {SeedFiles[1]} |->
      {SubSeq(F, 1, n) : n \in 0..Len(F)}
        \cup {F \o [i \in 1..n |-> 0] : n \in 1..MaxScanPad}
        \cup {F \o Candidate(kind, Len(F)) : kind \in TailKinds}
        \cup {F \o F}
        \cup {[i \in 1..n |-> 0] : n \in {1, minSize, minSize + MaxScanPad}}
        \cup {MAGIC_END \o MAGIC_END \o MAGIC_END \o MAGIC_END
                \o MAGIC_END \o MAGIC_END \o MAGIC_END \o MAGIC_END}])

InitScan ==
  \E F \in ScanFiles :
    /\ nodes = <<>>
    /\ stores = <<[coll |-> EmptyMap, file |-> 1, size |-> 0, readOnly |-> FALSE]>>
    /\ files = <<F>>
    /\ hist = Hist0
    /\ ret = Ret("", 0, OK)
    /\ nops = 0
    /\ threads = <<GoNewStore>>
    /\ maps = NoMaps

NextScan ==
  \/ DoStat
  \/ DoScan({"retry"})
  \/ DoScan({"fail"})
  \/ DoScan({"found"})

SpecScan == InitScan /\ [][NextScan]_vars

\* The scheduler runs the goroutine of NewStore as long as it has a step.
SpecScanLive == SpecScan /\ WF_vars(NextScan)

ErrNoRoots == "couldn't find roots; file corrupted or wrong?"

\* NewStore has returned what NewStore as one step returns for the file:
\* the same error, and when it is nil the same store.
ScanResult ==
  LET ns == NewStore([nodes |-> <<>>, stores |-> <<>>, io |-> NoFaults,
                      files |-> files], 1)
  IN  /\ threads[1].err = ns.err
      /\ ns.err = OK => stores[1] = ns.W.stores[1]
      /\ (Len(files[1]) > 0 /\ stores[1].size <= minSize)
           => threads[1].err = ErrNoRoots
      /\ threads[1].err = ErrNoRoots => stores[1].size <= minSize

\* C24: NewStore returns for every file content and size, with a store or
\* with an error, which is "couldn't find roots" once the candidate position
\* is at or below minSize (40); the candidate position decreases at every
\* retry.
C24_ScanTerminates ==
  /\ <>(threads[1].pc = "done")
  /\ [](threads[1].pc = "done" => ScanResult)
  /\ [][(threads[1].pc = "scan" /\ threads'[1].pc = "scan")
          => stores'[1].size < stores[1].size]_vars

\* NewStore has returned "couldn't find roots" after a scan that began
\* above two root records' length and came down to minSize.
C24_Witness ==
  /\ threads # <<>> /\ threads[1].op = "NewStore" /\ threads[1].pc = "done"
  /\ threads[1].err = ErrNoRoots
  /\ stores[1].size = minSize
  /\ Len(files[1]) > 2 * minSize

====
